---------------------------- MODULE Spec2Model ----------------------------
(***************************************************************************)
(* rs-flow: the flow builder (components, connection graph with its loop   *)
(* check) and the cycle-based run loop (ready sets for Lazy and Eager      *)
(* components, per-component contexts, firings, fan-out, termination).     *)
(*                                                                         *)
(* The specifications share the variables:                                 *)
(*   Spec         the builder: add_component / add_connection on a Flow    *)
(*   SpecRun      Flow::run on flows produced by the builder               *)
(*   SpecRoute    Flow::run on a flow with a fan-out                       *)
(*   SpecHello    Flow::run on the flow and bodies of the simple_case test *)
(*   SpecExample  Flow::run on the flow and bodies of the documentation    *)
(*   SpecRuns     several runs of one Flow at the same time                *)
(*   SpecBag      the operations of the Global bag                         *)
(*   SpecPorts    Ports::new on lists of ports                             *)
(*   SpecRing     Flow::run followed without a bound on the cycles         *)
(*   SpecMerge    Flow::run with fixed bodies, every interleaving          *)
(*   SpecShared   Flow::run with bodies that update one Global slot        *)
(***************************************************************************)
EXTENDS Integers, Sequences, FiniteSets, TLC

VARIABLES
    components,        \* Flow.components    : Id -> component declaration
    connections,       \* Connections.connections : Point -> Seq(Point)
    parents,           \* Connections.parents     : Id -> Seq(Id)
    last,              \* the last builder call and what it returned
    pc,                \* where Flow::run stands
    contexts,          \* Ctxs.contexts : Id -> Ctx (the pool)
    futures,           \* the firings of the current cycle, each owning its Ctx
    ready_components,  \* the ready Vec of the run loop (its order is arbitrary)
    first,             \* Flow::run's `first`
    cicle,             \* Flow::run's `cicle`
    global,            \* the Global shared by the contexts (one counter slot)
    run_result,        \* what Flow::run returned
    fired,             \* history: the set of ids launched in each cycle
    refreshes,         \* history: number of refresh_queues calls
    others             \* the runs of the same Flow in progress beside this one

\* What a run leaves alone: the flow, the last builder call and the other
\* runs of the flow
buildVars == <<components, connections, parents, last, others>>
runVars   == <<pc, contexts, futures, ready_components, first, cicle, global,
               run_result, fired, refreshes>>
vars      == <<components, connections, parents, last, pc, contexts, futures,
               ready_components, first, cicle, global, run_result, fired,
               refreshes, others>>

---------------------------------------------------------------------------
(* Values *)

Lazy  == "Lazy"
Eager == "Eager"

PortIds == {0, 1}

Point(id, port) == [id |-> id, port |-> port]

Connection(from, out_port, to, in_port) ==
    [from |-> from, out_port |-> out_port, to |-> to, in_port |-> in_port]

ConnFrom(c) == Point(c.from, c.out_port)
ConnTo(c)   == Point(c.to, c.in_port)

Component(id, inputs, outputs, ty) ==
    [id |-> id, inputs |-> inputs, outputs |-> outputs, ty |-> ty]

SeqContains(s, x) == \E i \in 1..Len(s) : s[i] = x

---------------------------------------------------------------------------
(* Connections: the graph of a Flow *)

EmptyConnections == [parents |-> <<>>, connections |-> <<>>]

\* ancestral_of recurses over the parent map without a visited set. The
\* outcome is "T" (true), "F" (false) or "D": the same call is already on
\* the call stack, so the recursion never returns (the stack overflows).
RECURSIVE ancestral_of_from(_, _, _, _)
RECURSIVE ancestral_of_scan(_, _, _, _, _)
ancestral_of_from(par, ancestral, id, stack) ==
    IF ancestral = id THEN "T"
    ELSE IF id \in stack THEN "D"
    ELSE IF id \notin DOMAIN par THEN "F"
    ELSE ancestral_of_scan(par, ancestral, par[id], 1, stack \cup {id})

ancestral_of_scan(par, ancestral, ps, i, stack) ==
    IF i > Len(ps) THEN "F"
    ELSE IF ps[i] = ancestral THEN "T"
    ELSE LET r == ancestral_of_from(par, ancestral, ps[i], stack)
         IN  IF r = "F"
             THEN ancestral_of_scan(par, ancestral, ps, i + 1, stack)
             ELSE r

\* Variant: the test `ancestral == id` is not made for the component asked
\* about
ancestral_of_noself(par, ancestral, id) ==
    IF id \notin DOMAIN par THEN "F"
    ELSE ancestral_of_scan(par, ancestral, par[id], 1, {id})

ancestral_of(par, ancestral, id) == ancestral_of_from(par, ancestral, id, {})

\* any_ancestral_of: same recursion, against a list of candidates.
RECURSIVE any_ancestral_of_from(_, _, _, _)
RECURSIVE any_ancestral_of_scan(_, _, _, _, _)
any_ancestral_of_from(par, ancestrals, id, stack) ==
    IF id \in ancestrals THEN "T"
    ELSE IF id \in stack THEN "D"
    ELSE IF id \notin DOMAIN par THEN "F"
    ELSE any_ancestral_of_scan(par, ancestrals, par[id], 1, stack \cup {id})

any_ancestral_of_scan(par, ancestrals, ps, i, stack) ==
    IF i > Len(ps) THEN "F"
    ELSE LET r == any_ancestral_of_from(par, ancestrals, ps[i], stack)
         IN  IF r = "F"
             THEN any_ancestral_of_scan(par, ancestrals, ps, i + 1, stack)
             ELSE r

any_ancestral_of(par, ancestrals, id) ==
    any_ancestral_of_from(par, ancestrals, id, {})

\* Connections::add. Returns the graph and the result of the call.
AddLoopCheck(g, c) == ancestral_of(g.parents, c.from, c.to)

\* Variant: an accepted connection is put in the edge index only
add_without_parents(g, c) ==
    LET loop == AddLoopCheck(g, c) IN
    IF loop = "D" THEN [g |-> g, result |-> "StackOverflow"]
    ELSE IF loop = "T" THEN [g |-> g, result |-> "LoopCreated"]
    ELSE
      LET from == ConnFrom(c)
          to   == ConnTo(c)
          to_ports == IF from \in DOMAIN g.connections
                      THEN g.connections[from] ELSE <<>>
      IN
      IF SeqContains(to_ports, to)
      THEN [g |-> g, result |-> "ConnectionAlreadyExist"]
      ELSE
        LET conns == [p \in DOMAIN g.connections \cup {from} |->
                        IF p = from THEN Append(to_ports, to)
                        ELSE g.connections[p]]
        IN [g |-> [parents |-> g.parents, connections |-> conns],
            result |-> "Ok"]

add(g, c) ==
    LET loop == AddLoopCheck(g, c) IN
    IF loop = "D" THEN [g |-> g, result |-> "StackOverflow"]
    ELSE IF loop = "T" THEN [g |-> g, result |-> "LoopCreated"]
    ELSE
      LET from == ConnFrom(c)
          to   == ConnTo(c)
          to_ports == IF from \in DOMAIN g.connections
                      THEN g.connections[from] ELSE <<>>
      IN
      IF SeqContains(to_ports, to)
      THEN [g |-> g, result |-> "ConnectionAlreadyExist"]
      ELSE
        LET conns == [p \in DOMAIN g.connections \cup {from} |->
                        IF p = from THEN Append(to_ports, to)
                        ELSE g.connections[p]]
            old   == IF c.to \in DOMAIN g.parents
                     THEN g.parents[c.to] ELSE <<>>
            new   == IF SeqContains(old, c.from) THEN old
                     ELSE Append(old, c.from)
            par   == [i \in DOMAIN g.parents \cup {c.to} |->
                        IF i = c.to THEN new ELSE g.parents[i]]
        IN [g |-> [parents |-> par, connections |-> conns], result |-> "Ok"]

---------------------------------------------------------------------------
(* Flow: the builder *)

EmptyFlow == [components |-> <<>>, graph |-> EmptyConnections]

\* Variant: the component is inserted before the id is looked up, so a
\* rejected call has already replaced the stored component
add_component_replace(f, comp) ==
    [flow |-> [f EXCEPT !.components =
                 [i \in DOMAIN f.components \cup {comp.id} |->
                    IF i = comp.id
                    THEN [inputs |-> comp.inputs,
                          outputs |-> comp.outputs, ty |-> comp.ty]
                    ELSE f.components[i]]],
     result |-> IF comp.id \in DOMAIN f.components
                THEN "ComponentAlreadyExist" ELSE "Ok"]

\* Flow::add_component
add_component(f, comp) ==
    IF comp.id \in DOMAIN f.components
    THEN [flow |-> f, result |-> "ComponentAlreadyExist"]
    ELSE [flow |-> [f EXCEPT !.components =
                      [i \in DOMAIN f.components \cup {comp.id} |->
                         IF i = comp.id
                         THEN [inputs |-> comp.inputs,
                               outputs |-> comp.outputs, ty |-> comp.ty]
                         ELSE f.components[i]]],
          result |-> "Ok"]

\* Variant: the input port of the destination is not looked up
add_connection_any_in_port(f, c) ==
    IF c.from \notin DOMAIN f.components
    THEN [flow |-> f, result |-> "ComponentNotFound", id |-> c.from]
    ELSE IF c.out_port \notin f.components[c.from].outputs
    THEN [flow |-> f, result |-> "OutPortNotFound", id |-> c.from]
    ELSE IF c.to \notin DOMAIN f.components
    THEN [flow |-> f, result |-> "ComponentNotFound", id |-> c.to]
    ELSE LET r == add(f.graph, c)
         IN  [flow |-> [f EXCEPT !.graph = r.g], result |-> r.result,
              id |-> 0]

\* Flow::add_connection
add_connection(f, c) ==
    IF c.from \notin DOMAIN f.components
    THEN [flow |-> f, result |-> "ComponentNotFound", id |-> c.from]
    ELSE IF c.out_port \notin f.components[c.from].outputs
    THEN [flow |-> f, result |-> "OutPortNotFound", id |-> c.from]
    ELSE IF c.to \notin DOMAIN f.components
    THEN [flow |-> f, result |-> "ComponentNotFound", id |-> c.to]
    ELSE IF c.in_port \notin f.components[c.to].inputs
    THEN [flow |-> f, result |-> "InPortNotFound", id |-> c.from]
    ELSE LET r == add(f.graph, c)
         IN  [flow |-> [f EXCEPT !.graph = r.g], result |-> r.result,
              id |-> 0]

TheFlow == [components |-> components,
            graph |-> [parents |-> parents, connections |-> connections]]

---------------------------------------------------------------------------
(* The graph of accepted connections, read off the edge index *)

Edges(conns) ==
    UNION { {<<p.id, conns[p][i].id>> : i \in 1..Len(conns[p])} :
            p \in DOMAIN conns }

\* Successors(E, S): the heads of the edges whose tail is in S.
Successors(E, S) == {e[2] : e \in {x \in E : x[1] \in S}}

\* Descendants(E, S): S and every node reachable from S.
RECURSIVE Descendants(_, _)
Descendants(E, S) ==
    LET next == S \cup Successors(E, S)
    IN  IF next = S THEN S ELSE Descendants(E, next)

\* PathExists(E, a, b): a directed path of length >= 1 from a to b.
PathExists(E, a, b) == b \in Descendants(E, Successors(E, {a}))

Acyclic(E) == \A e \in E : ~PathExists(E, e[1], e[1])

---------------------------------------------------------------------------
(* Specification Spec: the builder *)

Ids == {1, 2, 3}

\* The components offered to add_component. Id 1 is offered with two
\* different declarations.
CompPool ==
    { Component(1, {0}, {0}, Lazy),
      Component(1, {}, {0, 1}, Eager),
      Component(2, {0}, {0}, Lazy),
      Component(3, {0, 1}, {0}, Eager) }

ConnPool ==
    { Connection(f, o, t, i) : f \in Ids, o \in PortIds, t \in Ids, i \in PortIds }

NoCall == [op |-> "none", result |-> "Ok", id |-> 0]

\* One run of the flow, and no other run beside it
NoOthers == [active |-> 1, parked |-> <<>>]

IdleRun ==
    /\ pc = "build"
    /\ contexts = <<>>
    /\ futures = <<>>
    /\ ready_components = {}
    /\ first = TRUE
    /\ cicle = 1
    /\ global = 0
    /\ run_result = [kind |-> "None"]
    /\ fired = <<>>
    /\ refreshes = 0

BuildInit ==
    /\ components = <<>>
    /\ connections = <<>>
    /\ parents = <<>>
    /\ last = NoCall
    /\ others = NoOthers
    /\ IdleRun

\* A stack overflow aborts the process: nothing is called after it.
BuildAlive == pc = "build" /\ last.result # "StackOverflow"

AddComponent(comp) ==
    /\ BuildAlive
    /\ LET r == add_component(TheFlow, comp) IN
       /\ components' = r.flow.components
       /\ last' = [op |-> "add_component", comp |-> comp,
                   result |-> r.result, id |-> comp.id]
    /\ UNCHANGED <<connections, parents, others>>
    /\ UNCHANGED runVars

AddConnection(c) ==
    /\ BuildAlive
    /\ LET r == add_connection(TheFlow, c) IN
       /\ connections' = r.flow.graph.connections
       /\ parents' = r.flow.graph.parents
       /\ last' = [op |-> "add_connection", conn |-> c,
                   result |-> r.result, id |-> r.id]
    /\ UNCHANGED <<components, others>>
    /\ UNCHANGED runVars

BuildNext ==
    \/ \E comp \in CompPool : AddComponent(comp)
    \/ \E c \in ConnPool : AddConnection(c)

Spec == BuildInit /\ [][BuildNext]_vars

---------------------------------------------------------------------------
(* ReceiveQueue *)

ReceiveQueue_new == [open |-> TRUE, q |-> <<>>]

ReceiveQueue_close(queue) == [open |-> FALSE, q |-> <<>>]

\* Variant: a closed queue takes the packages
ReceiveQueue_push_all_closed(queue, packages) ==
    [queue EXCEPT !.q = queue.q \o packages]

\* Variant: the packages are put in front of the queue
ReceiveQueue_push_all_front(queue, packages) ==
    IF queue.open THEN [queue EXCEPT !.q = packages \o queue.q] ELSE queue

ReceiveQueue_push_all(queue, packages) ==
    IF queue.open THEN [queue EXCEPT !.q = queue.q \o packages] ELSE queue

ReceiveQueue_is_empty(queue) == IF queue.open THEN queue.q = <<>> ELSE TRUE

ReceiveQueue_len(queue) == IF queue.open THEN Len(queue.q) ELSE 0

\* Variant: get_next hands out the first package and empties the queue
ReceiveQueue_get_next_drain(queue) ==
    IF queue.open /\ queue.q # <<>>
    THEN [got |-> <<Head(queue.q)>>, queue |-> [queue EXCEPT !.q = <<>>]]
    ELSE [got |-> <<>>, queue |-> queue]

\* get_next: the package popped (a sequence of length 0 or 1) and the queue left
ReceiveQueue_get_next(queue) ==
    IF queue.open /\ queue.q # <<>>
    THEN [got |-> <<Head(queue.q)>>, queue |-> [queue EXCEPT !.q = Tail(queue.q)]]
    ELSE [got |-> <<>>, queue |-> queue]

ReceiveQueue_get_all(queue) ==
    IF queue.open
    THEN [got |-> queue.q, queue |-> [queue EXCEPT !.q = <<>>]]
    ELSE [got |-> <<>>, queue |-> queue]

---------------------------------------------------------------------------
(* InnerCtx: the operations a component body performs on its context.     *)
(* Each returns the context left and whether the call panicked.            *)

Pkg(src, n) == [src |-> src, n |-> n]

InnerCtx_from(id, component) ==
    [id |-> id, ty |-> component.ty,
     send |-> [port \in component.outputs |-> <<>>],
     receive |-> [port \in component.inputs |-> ReceiveQueue_new],
     consumed |-> FALSE, cicle |-> 0]

Panicked(ctx) == [ctx |-> ctx, panic |-> TRUE, got |-> <<>>]

InnerCtx_close(ctx, port) ==
    IF port \notin DOMAIN ctx.receive
    THEN Panicked([ctx EXCEPT !.consumed = TRUE])
    ELSE [ctx |-> [ctx EXCEPT !.consumed = TRUE,
                              !.receive[port] = ReceiveQueue_close(@)],
          panic |-> FALSE, got |-> <<>>]

InnerCtx_receive(ctx, port) ==
    IF port \notin DOMAIN ctx.receive
    THEN Panicked(ctx)
    ELSE LET r == ReceiveQueue_get_next(ctx.receive[port])
         IN  [ctx |-> [ctx EXCEPT !.consumed = TRUE, !.receive[port] = r.queue],
              panic |-> FALSE, got |-> r.got]

InnerCtx_receive_all(ctx, port) ==
    IF port \notin DOMAIN ctx.receive
    THEN Panicked([ctx EXCEPT !.consumed = TRUE])
    ELSE LET r == ReceiveQueue_get_all(ctx.receive[port])
         IN  [ctx |-> [ctx EXCEPT !.consumed = TRUE, !.receive[port] = r.queue],
              panic |-> FALSE, got |-> r.got]

\* Variant: the queues that hold a package are popped even when another
\* listed queue is empty
InnerCtx_receive_many_partial(ctx, ports) ==
    IF \E i, j \in 1..Len(ports) :
          i # j /\ ports[i] = ports[j] /\ ports[i] \in DOMAIN ctx.receive
    THEN Panicked(ctx) @@ [some |-> FALSE]
    ELSE LET all == \A i \in 1..Len(ports) :
                       /\ ports[i] \in DOMAIN ctx.receive
                       /\ ~ReceiveQueue_is_empty(ctx.receive[ports[i]])
         IN  [ctx |-> [ctx EXCEPT !.receive =
                         [p \in DOMAIN ctx.receive |->
                            IF SeqContains(ports, p)
                            THEN ReceiveQueue_get_next(ctx.receive[p]).queue
                            ELSE ctx.receive[p]]],
              panic |-> FALSE,
              got |-> IF all
                      THEN [i \in 1..Len(ports) |->
                              ReceiveQueue_get_next(ctx.receive[ports[i]]).got[1]]
                      ELSE <<>>,
              some |-> all]

\* receive_many: get_disjoint_mut panics on a repeated key that the map
\* holds and yields None for a key the map does not hold; `some` tells
\* Some(..) from None.
InnerCtx_receive_many(ctx, ports) ==
    IF \E i, j \in 1..Len(ports) :
          i # j /\ ports[i] = ports[j] /\ ports[i] \in DOMAIN ctx.receive
    THEN Panicked(ctx) @@ [some |-> FALSE]
    ELSE IF \E i \in 1..Len(ports) :
               \/ ports[i] \notin DOMAIN ctx.receive
               \/ ReceiveQueue_is_empty(ctx.receive[ports[i]])
    THEN [ctx |-> ctx, panic |-> FALSE, got |-> <<>>, some |-> FALSE]
    ELSE [ctx |-> [ctx EXCEPT !.receive =
                     [p \in DOMAIN ctx.receive |->
                        IF SeqContains(ports, p)
                        THEN ReceiveQueue_get_next(ctx.receive[p]).queue
                        ELSE ctx.receive[p]]],
          panic |-> FALSE,
          got |-> [i \in 1..Len(ports) |->
                     ReceiveQueue_get_next(ctx.receive[ports[i]]).got[1]],
          some |-> TRUE]

\* send pushes at the front of the send buffer
InnerCtx_send(ctx, port, package) ==
    IF port \notin DOMAIN ctx.send
    THEN Panicked(ctx)
    ELSE [ctx |-> [ctx EXCEPT !.send[port] = <<package>> \o @],
          panic |-> FALSE, got |-> <<>>]

\* send_all extends the send buffer at the back
InnerCtx_send_all(ctx, port, packages) ==
    IF port \notin DOMAIN ctx.send
    THEN Panicked(ctx)
    ELSE [ctx |-> [ctx EXCEPT !.send[port] = @ \o packages],
          panic |-> FALSE, got |-> <<>>]

---------------------------------------------------------------------------
(* Ctxs: the pool of contexts *)

Ctxs_new(comps) == [id \in DOMAIN comps |-> InnerCtx_from(id, comps[id])]

\* Variant: borrow hands out the context and leaves it in the pool
Ctxs_borrow_keep(ctxs, id) == ctxs

\* borrow removes the context from the pool
Ctxs_borrow(ctxs, id) == [i \in DOMAIN ctxs \ {id} |-> ctxs[i]]

\* The pool once the contexts of `ids` are borrowed
RECURSIVE BorrowAll(_, _)
BorrowAll(ctxs, ids) ==
    IF ids = {} THEN ctxs
    ELSE LET id == CHOOSE x \in ids : TRUE
         IN  BorrowAll(Ctxs_borrow(ctxs, id), ids \ {id})

Ctxs_give_back(ctxs, ctx) ==
    [i \in DOMAIN ctxs \cup {ctx.id} |-> IF i = ctx.id THEN ctx ELSE ctxs[i]]

entry_points(ctxs) == {id \in DOMAIN ctxs : DOMAIN ctxs[id].receive = {}}

\* Orders(S): the sequences that list every element of S once
Orders(S) ==
    {o \in [1..Cardinality(S) -> S] : \A i, j \in DOMAIN o : o[i] = o[j] => i = j}

\* The send buffers that hold packages
Sources(ctxs) ==
    UNION { {Point(id, port) : port \in {q \in DOMAIN ctxs[id].send :
                                             ctxs[id].send[q] # <<>>}} :
            id \in DOMAIN ctxs }

\* The orders in which refresh_queues can meet the send buffers: the
\* contexts in any order, and the ports of one context in any order
SourceOrders(ctxs) ==
    {o \in Orders(Sources(ctxs)) :
        \A i, j, k \in DOMAIN o :
            (i < j /\ j < k /\ o[i].id = o[k].id) => o[j].id = o[i].id}

\* Variant: only the first connection of the output port is served
TargetsOfFirst(conns, from) ==
    IF from \in DOMAIN conns THEN <<conns[from][1]>> ELSE <<>>

\* Connections::from
TargetsOf(conns, from) == IF from \in DOMAIN conns THEN conns[from] ELSE <<>>

\* Variant: insert_or_append replaces what packages_received holds for the
\* point, so the buffer met last is the one that stays
RECURSIVE PackagesReceived_insert(_, _, _, _, _)
PackagesReceived_insert(ctxs, conns, ord, i, point) ==
    IF i > Len(ord) THEN <<>>
    ELSE LET rest == PackagesReceived_insert(ctxs, conns, ord, i + 1, point)
         IN  IF rest # <<>> THEN rest
             ELSE IF point \in {(IF ord[i] \in DOMAIN conns THEN conns[ord[i]]
                                  ELSE <<>>)[j] :
                                j \in 1..Len(IF ord[i] \in DOMAIN conns
                                             THEN conns[ord[i]] ELSE <<>>)}
                  THEN ctxs[ord[i].id].send[ord[i].port]
                  ELSE <<>>

\* What packages_received holds for `point` once the send buffers were
\* met in the order `ord`
RECURSIVE PackagesReceived(_, _, _, _, _)
PackagesReceived(ctxs, conns, ord, i, point) ==
    IF i > Len(ord) THEN <<>>
    ELSE (IF SeqContains(TargetsOf(conns, ord[i]), point)
          THEN ctxs[ord[i].id].send[ord[i].port] ELSE <<>>)
         \o PackagesReceived(ctxs, conns, ord, i + 1, point)

\* Variant: the walk over the send buffers of a context stops at the first
\* empty one (the ports met in ascending order), as Ctxs::refresh did
refresh_break(ctxs, conns, ord) ==
    LET Met(id, port) ==
            \A q \in DOMAIN ctxs[id].send : q <= port => ctxs[id].send[q] # <<>>
        taken == [id \in DOMAIN ctxs |->
                    [ctxs[id] EXCEPT
                        !.send = [port \in DOMAIN ctxs[id].send |->
                            IF Met(id, port) THEN ctxs[id].send[port] ELSE <<>>]]]
    IN  [id \in DOMAIN ctxs |->
            [ctxs[id] EXCEPT
                !.send = [port \in DOMAIN ctxs[id].send |->
                    IF Met(id, port) THEN <<>> ELSE ctxs[id].send[port]],
                !.receive = [port \in DOMAIN ctxs[id].receive |->
                    ReceiveQueue_push_all(ctxs[id].receive[port],
                        PackagesReceived(taken, conns, ord, 1, Point(id, port)))]]]

refresh_queues(ctxs, conns, ord) ==
    [id \in DOMAIN ctxs |->
        [ctxs[id] EXCEPT
            !.send = [port \in DOMAIN ctxs[id].send |-> <<>>],
            !.receive = [port \in DOMAIN ctxs[id].receive |->
                ReceiveQueue_push_all(ctxs[id].receive[port],
                    PackagesReceived(ctxs, conns, ord, 1, Point(id, port)))]]]

\* Variant: a component without input ports stays a candidate
CandidatesWithEntries(ctxs) ==
    {id \in DOMAIN ctxs :
        \A port \in DOMAIN ctxs[id].receive :
            ReceiveQueue_len(ctxs[id].receive[port]) > 0}

\* Variant: a package in some input queue is enough
CandidatesAnyPort(ctxs) ==
    {id \in DOMAIN ctxs :
        /\ DOMAIN ctxs[id].receive # {}
        /\ \E port \in DOMAIN ctxs[id].receive :
              ReceiveQueue_len(ctxs[id].receive[port]) > 0}

\* Variant: a closed input port is no longer waited for
CandidatesOpenPorts(ctxs) ==
    {id \in DOMAIN ctxs :
        /\ DOMAIN ctxs[id].receive # {}
        /\ \A port \in DOMAIN ctxs[id].receive :
              ctxs[id].receive[port].open => Len(ctxs[id].receive[port].q) > 0
        /\ \E port \in DOMAIN ctxs[id].receive :
              ctxs[id].receive[port].open /\ Len(ctxs[id].receive[port].q) > 0}

\* The candidates of ready_components: at least one input port and a
\* package in every input queue
Candidates(ctxs) ==
    {id \in DOMAIN ctxs :
        /\ DOMAIN ctxs[id].receive # {}
        /\ \A port \in DOMAIN ctxs[id].receive :
              ReceiveQueue_len(ctxs[id].receive[port]) > 0}

\* The ancestors of the components of `todo` through the parent map, found
\* depth first with a visited set
RECURSIVE Ancestors(_, _, _)
Ancestors(par, todo, visited) ==
    IF todo = {} THEN visited
    ELSE LET ps == UNION { IF x \in DOMAIN par
                           THEN {par[x][i] : i \in 1..Len(par[x])}
                           ELSE {} : x \in todo }
         IN  Ancestors(par, ps \ visited, visited \cup ps)

\* Whether a candidate other than `id` is an ancestor of `id`
is_any_of_ancestors(par, id, ready) ==
    (ready \ {id}) \cap Ancestors(par, {id}, {}) # {}

\* Variant: Eager is treated as Lazy
EagerTestAsLazy(ctxs, par, id, ready) == FALSE

\* Variant: the candidate itself is left in the list given to the ancestor
\* test
EagerTestWithSelf(ctxs, par, id, ready) ==
    IF ctxs[id].ty = Eager THEN any_ancestral_of(par, ready, id) = "T" ELSE FALSE

\* The filter of ready_components: whether the candidate is held back
EagerTest(ctxs, par, id, ready) ==
    IF ctxs[id].ty = Eager THEN is_any_of_ancestors(par, id, ready) ELSE FALSE

\* Variant: no candidate is held back
ready_components_of_unfiltered(ctxs, par) == Candidates(ctxs)

\* ready_components: the candidates without the Eager ones held back
ready_components_of(ctxs, par) ==
    LET ready == Candidates(ctxs)
        eager_not_ready == {id \in ready : EagerTest(ctxs, par, id, ready)}
    IN  ready \ eager_not_ready

---------------------------------------------------------------------------
(* Specification SpecRun: Flow::run *)

MaxSent   == 2   \* packages one firing sends before it returns
MaxCicle  == 4   \* cycles a run is followed for
MaxGlobal == 1   \* with_mut updates of the global counter a run is followed for

\* The flows that are run: each is built by the builder from its calls.
\*   HoldBack entry 1 -> lazy 2 -> eager 3
\*   TwoIn    entries 1, 2 feed the two input ports of lazy 3
\*   Fork     entry 1 feeds lazy 2 and lazy 3 from one output port
\*   Ring     entry 1 -> lazy 2 -> eager 3 -> 2 (the builder accepts 3 -> 2)
FlowHoldBack ==
    [comps |-> { Component(1, {}, {0}, Lazy), Component(2, {0}, {0}, Lazy),
                 Component(3, {0}, {}, Eager) },
     conns |-> << Connection(1, 0, 2, 0), Connection(2, 0, 3, 0) >>]

FlowTwoIn ==
    [comps |-> { Component(1, {}, {0}, Lazy), Component(2, {}, {0}, Lazy),
                 Component(3, {0, 1}, {}, Lazy) },
     conns |-> << Connection(1, 0, 3, 0), Connection(2, 0, 3, 1) >>]

FlowFork ==
    [comps |-> { Component(1, {}, {0}, Lazy), Component(2, {0}, {}, Lazy),
                 Component(3, {0}, {}, Lazy) },
     conns |-> << Connection(1, 0, 2, 0), Connection(1, 0, 3, 0) >>]

FlowRing ==
    [comps |-> { Component(1, {}, {0}, Lazy), Component(2, {0}, {0}, Lazy),
                 Component(3, {0}, {0}, Eager) },
     conns |-> << Connection(1, 0, 2, 0), Connection(2, 0, 3, 0),
                  Connection(3, 0, 2, 0) >>]

RunFlows == {FlowHoldBack, FlowTwoIn, FlowFork, FlowRing}

RECURSIVE AddComponents(_, _)
AddComponents(f, comps) ==
    IF comps = {} THEN f
    ELSE LET comp == CHOOSE x \in comps : TRUE
         IN  AddComponents(add_component(f, comp).flow, comps \ {comp})

RECURSIVE AddConnections(_, _, _)
AddConnections(f, conns, i) ==
    IF i > Len(conns) THEN f
    ELSE AddConnections(add_connection(f, conns[i]).flow, conns, i + 1)

Build(fl) == AddConnections(AddComponents(EmptyFlow, fl.comps), fl.conns, 1)

RunInit ==
    /\ \E fl \in RunFlows :
          LET f == Build(fl) IN
          /\ components = f.components
          /\ connections = f.graph.connections
          /\ parents = f.graph.parents
    /\ last = NoCall
    /\ others = NoOthers
    /\ pc = "start"
    /\ contexts = <<>>
    /\ futures = <<>>
    /\ ready_components = {}
    /\ first = TRUE
    /\ cicle = 1
    /\ global = 0
    /\ run_result = [kind |-> "None"]
    /\ fired = <<>>
    /\ refreshes = 0

\* Flow::run returns (or unwinds): its contexts and futures are dropped
Finish(result) ==
    /\ pc' = "done"
    /\ run_result' = result
    /\ contexts' = <<>>
    /\ futures' = <<>>
    /\ ready_components' = {}

\* Flow::run up to the loop: the contexts and the entry points
RunStart ==
    /\ pc = "start"
    /\ pc' = "loop"
    /\ contexts' = Ctxs_new(components)
    /\ ready_components' = entry_points(Ctxs_new(components))
    /\ first' = TRUE
    /\ cicle' = 1
    /\ UNCHANGED <<futures, global, run_result, fired, refreshes>>
    /\ UNCHANGED buildVars

\* Variant: the consumed flag is left as the previous firing set it
Launch_keep_consumed(ctx, n) ==
    [ctx |-> [ctx EXCEPT !.cicle = n],
     done |-> FALSE, next |-> "None", read |-> FALSE]

\* One firing: the borrowed context, reset and stamped, and the body's progress
Launch(ctx, n) ==
    [ctx |-> [ctx EXCEPT !.consumed = FALSE, !.cicle = n],
     done |-> FALSE, next |-> "None", read |-> FALSE]

\* The head of the loop with a ready set: every ready context is borrowed
\* and its component's body scheduled
CycleStart ==
    /\ pc = "loop"
    /\ ready_components # {}
    /\ pc' = "await"
    /\ futures' = [id \in ready_components |-> Launch(contexts[id], cicle)]
    /\ contexts' = BorrowAll(contexts, ready_components)
    /\ fired' = Append(fired, ready_components)
    /\ UNCHANGED <<ready_components, first, cicle, global, run_result, refreshes>>
    /\ UNCHANGED buildVars

\* The loop ends with an empty ready set: Ok(global)
RunEnd ==
    /\ pc = "loop"
    /\ ready_components = {}
    /\ Finish([kind |-> "Ok", global |-> global, by |-> "NoneReady"])
    /\ UNCHANGED <<first, cicle, global, fired, refreshes>>
    /\ UNCHANGED buildVars

\* Variant: the error of a firing is not looked at
ErrIgnored == FALSE

\* A firing has returned Err: try_join_all returns in the same poll
ErrReturned == \E k \in DOMAIN futures : futures[k].next = "Err"

Running(k) ==
    /\ pc = "await"
    /\ k \in DOMAIN futures
    /\ ~futures[k].done
    /\ ~ErrReturned

\* The operations that read from or close an input queue
ReadOps == {"receive", "receive_all", "receive_many", "close"}

\* The sizes of the batches handed to send_all
BatchSizes == {2}

\* The packages the firing has sent so far (its send buffers start empty)
Sent(ctx) ==
    LET RECURSIVE Sum(_)
        Sum(P) == IF P = {} THEN 0
                  ELSE LET q == CHOOSE x \in P : TRUE
                       IN  Len(ctx.send[q]) + Sum(P \ {q})
    IN  Sum(DOMAIN ctx.send)

\* The body of k performed `op` with outcome r: a panic unwinds through run
BodyStep(k, op, r) ==
    /\ Running(k)
    /\ Sent(r.ctx) <= MaxSent
    /\ IF r.panic
       THEN Finish([kind |-> "Panic", id |-> k])
       ELSE /\ futures' = [futures EXCEPT ![k].ctx = r.ctx,
                                          ![k].read = @ \/ op \in ReadOps]
            /\ UNCHANGED <<pc, run_result, contexts, ready_components>>
    /\ UNCHANGED <<first, cicle, global, fired, refreshes>>
    /\ UNCHANGED buildVars

Receive(k, port) ==
    /\ Running(k)
    /\ BodyStep(k, "receive", InnerCtx_receive(futures[k].ctx, port))

ReceiveAll(k, port) ==
    /\ Running(k)
    /\ BodyStep(k, "receive_all", InnerCtx_receive_all(futures[k].ctx, port))

ReceiveMany(k, ports) ==
    /\ Running(k)
    /\ LET r == InnerCtx_receive_many(futures[k].ctx, ports)
       IN  BodyStep(k, IF r.some THEN "receive_many" ELSE "receive_many_none", r)

Close(k, port) ==
    /\ Running(k)
    /\ BodyStep(k, "close", InnerCtx_close(futures[k].ctx, port))

Send(k, port) ==
    /\ Running(k)
    /\ BodyStep(k, "send",
                InnerCtx_send(futures[k].ctx, port,
                              Pkg(k, Sent(futures[k].ctx) + 1)))

SendAll(k, port, n) ==
    /\ Running(k)
    /\ BodyStep(k, "send_all",
                InnerCtx_send_all(futures[k].ctx, port,
                                  [i \in 1..n |-> Pkg(k, Sent(futures[k].ctx) + i)]))

\* global.with_mut on the counter slot
WithMut(k) ==
    /\ Running(k)
    /\ global < MaxGlobal
    /\ global' = global + 1
    /\ UNCHANGED <<pc, contexts, futures, ready_components, first, cicle,
                   run_result, fired, refreshes>>
    /\ UNCHANGED buildVars

\* The body returns Ok(next)
Return(k, next) ==
    /\ Running(k)
    /\ futures' = [futures EXCEPT ![k].done = TRUE, ![k].next = next]
    /\ UNCHANGED <<pc, contexts, ready_components, first, cicle, global,
                   run_result, fired, refreshes>>
    /\ UNCHANGED buildVars

\* The body returns Err(_)
ReturnErr(k) ==
    /\ Running(k)
    /\ futures' = [futures EXCEPT ![k].done = TRUE, ![k].next = "Err"]
    /\ UNCHANGED <<pc, contexts, ready_components, first, cicle, global,
                   run_result, fired, refreshes>>
    /\ UNCHANGED buildVars

\* try_join_all returns the error at once and `?` returns it from run
JoinErr ==
    /\ pc = "await"
    /\ \E k \in DOMAIN futures :
          /\ futures[k].next = "Err"
          /\ Finish([kind |-> "ComponentError", id |-> k])
    /\ UNCHANGED <<first, cicle, global, fired, refreshes>>
    /\ UNCHANGED buildVars

\* Variant: the join returns with the first firing that returned
AnyReturned == (\E k \in DOMAIN futures : futures[k].done) /\ ~ErrReturned

\* Variant: the join waits for every firing and does not look for an error
AllDone == \A k \in DOMAIN futures : futures[k].done

\* try_join_all returned Ok: every firing returned Ok(_)
AllReturned == (\A k \in DOMAIN futures : futures[k].done) /\ ~ErrReturned

\* Variant: Break is not looked at
BreakIgnored == FALSE

\* A firing returned Ok(Break)
AnyBreak == \E k \in DOMAIN futures : futures[k].next = "Break"

\* Variant: the first cycle is not exempt
NotConsumedAnyCycle(fs, fst) == {k \in DOMAIN fs : ~fs[k].ctx.consumed}

\* The results that fail the consumed check of the loop
NotConsumed(fs, fst) == {k \in DOMAIN fs : ~fs[k].ctx.consumed /\ ~fst}

\* try_join_all returned Ok and a firing returned Break: Ok(global)
JoinBreak ==
    /\ pc = "await"
    /\ AllReturned
    /\ AnyBreak
    /\ Finish([kind |-> "Ok", global |-> global, by |-> "Break"])
    /\ UNCHANGED <<first, cicle, global, fired, refreshes>>
    /\ UNCHANGED buildVars

\* The first result, in the order of the results, that consumed nothing
\* ends the run
JoinNotConsumed ==
    /\ pc = "await"
    /\ AllReturned
    /\ ~AnyBreak
    /\ \E ord \in Orders(DOMAIN futures) :
       \E n \in DOMAIN ord :
          /\ ord[n] \in NotConsumed(futures, first)
          /\ \A m \in 1..(n - 1) : ord[m] \notin NotConsumed(futures, first)
          /\ Finish([kind |-> "AnyPackageConsumed", id |-> ord[n]])
    /\ UNCHANGED <<first, cicle, global, fired, refreshes>>
    /\ UNCHANGED buildVars

\* Every context is given back, the packages are routed and the next ready
\* set is computed; the run is followed while cicle is below `limit`
JoinContinueUpTo(limit) ==
    /\ pc = "await"
    /\ AllReturned
    /\ ~AnyBreak
    /\ NotConsumed(futures, first) = {}
    /\ cicle < limit
    /\ LET back == [id \in DOMAIN contexts \cup DOMAIN futures |->
                      IF id \in DOMAIN futures THEN futures[id].ctx
                      ELSE contexts[id]]
       IN  \E ord \in SourceOrders(back) :
             LET routed == refresh_queues(back, connections, ord)
             IN  /\ refreshes' = refreshes + 1
                 /\ pc' = "loop"
                 /\ contexts' = routed
                 /\ futures' = <<>>
                 /\ ready_components' = ready_components_of(routed, parents)
                 /\ first' = FALSE
                 /\ cicle' = cicle + 1
                 /\ UNCHANGED run_result
    /\ UNCHANGED <<global, fired>>
    /\ UNCHANGED buildVars

JoinContinue == JoinContinueUpTo(MaxCicle)

PortLists == {<<0>>, <<0, 1>>, <<1, 0>>, <<0, 0>>}

RunNext ==
    \/ RunStart
    \/ CycleStart
    \/ RunEnd
    \/ \E k \in DOMAIN futures, port \in PortIds : Receive(k, port)
    \/ \E k \in DOMAIN futures, port \in PortIds : ReceiveAll(k, port)
    \/ \E k \in DOMAIN futures, ports \in PortLists : ReceiveMany(k, ports)
    \/ \E k \in DOMAIN futures, port \in PortIds : Close(k, port)
    \/ \E k \in DOMAIN futures, port \in PortIds : Send(k, port)
    \/ \E k \in DOMAIN futures, port \in PortIds, n \in BatchSizes :
          SendAll(k, port, n)
    \/ \E k \in DOMAIN futures : WithMut(k)
    \/ \E k \in DOMAIN futures, next \in {"Continue", "Break"} : Return(k, next)
    \/ \E k \in DOMAIN futures : ReturnErr(k)
    \/ JoinErr
    \/ JoinBreak
    \/ JoinNotConsumed
    \/ JoinContinue

SpecRun == RunInit /\ [][RunNext]_vars

---------------------------------------------------------------------------
(* Specification SpecRoute: Flow::run on a flow whose second stage fans   *)
(* out to two sinks and has an output port without connection; the bodies *)
(* receive, close, send and return Continue.                               *)

\*   Fan   entry 1 -> lazy 2; 2.0 -> lazy 3 and lazy 4; 2.1 not connected
FlowFan ==
    [comps |-> { Component(1, {}, {0}, Lazy), Component(2, {0}, {0, 1}, Lazy),
                 Component(3, {0}, {}, Lazy), Component(4, {0}, {}, Lazy) },
     conns |-> << Connection(1, 0, 2, 0), Connection(2, 0, 3, 0),
                  Connection(2, 0, 4, 0) >>]

RouteInit ==
    /\ components = Build(FlowFan).components
    /\ connections = Build(FlowFan).graph.connections
    /\ parents = Build(FlowFan).graph.parents
    /\ last = NoCall
    /\ others = NoOthers
    /\ pc = "start"
    /\ contexts = <<>>
    /\ futures = <<>>
    /\ ready_components = {}
    /\ first = TRUE
    /\ cicle = 1
    /\ global = 0
    /\ run_result = [kind |-> "None"]
    /\ fired = <<>>
    /\ refreshes = 0

RouteNext ==
    \/ RunStart
    \/ CycleStart
    \/ RunEnd
    \/ \E k \in DOMAIN futures : Receive(k, 0)
    \/ \E k \in DOMAIN futures : ReceiveAll(k, 0)
    \/ \E k \in DOMAIN futures : Close(k, 0)
    \/ \E k \in DOMAIN futures, port \in PortIds : Send(k, port)
    \/ \E k \in DOMAIN futures : Return(k, "Continue")
    \/ JoinNotConsumed
    \/ JoinContinue

SpecRoute == RouteInit /\ [][RouteNext]_vars

---------------------------------------------------------------------------
(* Properties of the builder, checked under Spec *)

\* The last call was an add_connection between declared ports of two
\* different components
ValidAddConnection(call) ==
    /\ call.op = "add_connection"
    /\ call.conn.from # call.conn.to
    /\ call.conn.from \in DOMAIN components
    /\ call.conn.to \in DOMAIN components
    /\ call.conn.out_port \in components[call.conn.from].outputs
    /\ call.conn.in_port \in components[call.conn.to].inputs

\* C1: after any sequence of add_component / add_connection calls, accepted
\* or rejected, the graph of accepted connections has no self-loop and no
\* directed cycle.
C1_AcceptedGraphAcyclic == Acyclic(Edges(connections))

\* C2: when the accepted connections already hold a directed path from `to`
\* to `from`, add_connection(from -> to) fails with LoopCreated and leaves
\* the edge index and the parent map as they were.
C2_CycleClosingAddFails ==
    [][ ( /\ ValidAddConnection(last')
          /\ PathExists(Edges(connections), last'.conn.to, last'.conn.from) )
        => ( /\ last'.result = "LoopCreated"
             /\ connections' = connections
             /\ parents' = parents ) ]_vars

---------------------------------------------------------------------------
(* Properties of Flow::run, checked under SpecRun *)

\* The components without input ports
Entries == {id \in DOMAIN components : components[id].inputs = {}}

\* Every input queue of the context holds at least one package
InputsHold(ctx) ==
    /\ DOMAIN ctx.receive # {}
    /\ \A port \in DOMAIN ctx.receive :
          ctx.receive[port].open /\ ctx.receive[port].q # <<>>

\* The other components with a directed connection path to `id`
ProperAncestors(id) ==
    {a \in DOMAIN components \ {id} : PathExists(Edges(connections), a, id)}

\* The ready set has just been computed for the cycle about to start
ReadyComputed == pc = "loop" /\ DOMAIN contexts = DOMAIN components

\* C3: in every cycle after the first, a Lazy component with an input port
\* is in the ready set, and so fires, exactly when every one of its input
\* queues holds a package as the ready set is computed.
C3_LazyFiresIffInputsHold ==
    (ReadyComputed /\ ~first) =>
        \A id \in DOMAIN contexts :
            (contexts[id].ty = Lazy /\ DOMAIN contexts[id].receive # {}) =>
                (id \in ready_components <=> InputsHold(contexts[id]))

\* A Lazy component with two input ports is about to fire
C3_Witness ==
    /\ ReadyComputed /\ ~first
    /\ \E id \in ready_components :
          /\ contexts[id].ty = Lazy
          /\ Cardinality(DOMAIN contexts[id].receive) = 2

\* C4: an Eager component is never in the ready set of a cycle while
\* another component with a connection path to it has all its input queues
\* non-empty.
C4_EagerNeverWithReadyAncestor ==
    ReadyComputed =>
        \A id \in ready_components :
            contexts[id].ty = Eager =>
                \A a \in ProperAncestors(id) : ~InputsHold(contexts[a])

\* An Eager component with packages in all its queues is held back while an
\* ancestor of it fires
C4_Witness ==
    /\ ReadyComputed
    /\ \E id \in DOMAIN contexts \ ready_components :
          /\ contexts[id].ty = Eager
          /\ InputsHold(contexts[id])
          /\ \E a \in ProperAncestors(id) \cap ready_components :
                InputsHold(contexts[a])

C6_EntriesFireOnceInCycleOne ==
    /\ Len(fired) >= 1 => fired[1] = Entries
    /\ \A n \in 2..Len(fired) : fired[n] \cap Entries = {}
    /\ (pc = "loop" /\ ~first) => ready_components \cap Entries = {}
    /\ pc = "await" => (Len(fired) = cicle /\ DOMAIN futures = fired[cicle])
    /\ (pc = "done" /\ Entries # {}) => Len(fired) >= 1

\* A run with two entry components has ended after a third cycle
C6_Witness ==
    /\ pc = "done"
    /\ Len(fired) >= 3
    /\ Cardinality(fired[1]) = 2

\* Every firing of the cycle returned Ok(Continue)
AllContinue ==
    /\ pc = "await"
    /\ \A k \in DOMAIN futures : futures[k].done /\ futures[k].next = "Continue"

\* C7: when a firing of a cycle after the first returns Continue without
\* having read from or closed an input queue, and no firing of the cycle
\* returned an error or Break, run fails with AnyPackageConsumed naming that
\* component; the firings of the first cycle are exempt.
C7_ErrorNamesTheComponent ==
    [][ /\ (AllContinue /\ ~first) =>
              \A k \in DOMAIN futures :
                  ~futures[k].read =>
                      /\ pc' = "done"
                      /\ run_result' = [kind |-> "AnyPackageConsumed", id |-> k]
        /\ (AllContinue /\ first) =>
              ~(pc' = "done" /\ run_result'.kind = "AnyPackageConsumed") ]_vars

\* C7 amended: as C7, but the error names a component fired in that cycle
\* whose consumed flag is unset, which is that component when it is the
\* only one.
C7_ErrorNamesAnUnconsumedFiring ==
    [][ /\ (AllContinue /\ ~first /\ \E k \in DOMAIN futures : ~futures[k].read) =>
              /\ pc' = "done"
              /\ run_result'.kind = "AnyPackageConsumed"
              /\ run_result'.id \in DOMAIN futures
              /\ ~futures[run_result'.id].ctx.consumed
        /\ (AllContinue /\ first) =>
              ~(pc' = "done" /\ run_result'.kind = "AnyPackageConsumed") ]_vars

\* A run has failed with AnyPackageConsumed in a cycle after the first
C7_Witness ==
    /\ pc = "done"
    /\ run_result.kind = "AnyPackageConsumed"
    /\ Len(fired) >= 2
    /\ run_result.id \in fired[Len(fired)]

\* C8: within a firing, every operation that reads from or closes an input
\* queue (receive, receive_all, receive_many that returns packages, close)
\* sets the consumed flag of the context.
C8_ReadSetsConsumed ==
    \A k \in DOMAIN futures : futures[k].read => futures[k].ctx.consumed

\* C9: once a firing of a cycle has returned Break, no further cycle starts,
\* nothing more fires and nothing is routed; when every firing of the cycle
\* has returned without an error, run returns Ok with the global as modified
\* so far, and nothing happens after run has returned.
C9_BreakEndsTheRun ==
    [][ /\ pc # "done"
        /\ (pc = "await" /\ \E k \in DOMAIN futures : futures[k].next = "Break") =>
              /\ pc' \in {"await", "done"}
              /\ cicle' = cicle /\ fired' = fired /\ refreshes' = refreshes
        /\ ( /\ pc = "await"
             /\ \A k \in DOMAIN futures :
                   futures[k].done /\ futures[k].next # "Err"
             /\ \E k \in DOMAIN futures : futures[k].next = "Break" ) =>
              /\ pc' = "done"
              /\ run_result' = [kind |-> "Ok", global |-> global, by |-> "Break"] ]_vars

\* A run ended by Break has returned a global that a firing modified
C9_Witness ==
    /\ pc = "done"
    /\ run_result.kind = "Ok"
    /\ run_result.by = "Break"
    /\ run_result.global > 0
    /\ Len(fired) >= 2

\* C10: when a firing has returned an error, run returns that error: no
\* later cycle starts, the packages sent in the cycle are not routed, the
\* result carries no global, and nothing happens after run has returned.
C10_ErrorEndsTheRun ==
    [][ /\ pc # "done"
        /\ (pc = "await" /\ \E k \in DOMAIN futures : futures[k].next = "Err") =>
              /\ pc' = "done"
              /\ \E k \in DOMAIN futures :
                    /\ futures[k].next = "Err"
                    /\ run_result' = [kind |-> "ComponentError", id |-> k]
              /\ contexts' = <<>>
              /\ cicle' = cicle /\ fired' = fired /\ refreshes' = refreshes ]_vars

\* A run has returned the error of a firing of its second cycle, whose
\* packages were not routed
C10_Witness ==
    /\ pc = "done"
    /\ run_result.kind = "ComponentError"
    /\ cicle = 2
    /\ refreshes = 1
    /\ run_result.id \in fired[2]

---------------------------------------------------------------------------
(* Properties of the routing, checked under SpecRun *)

\* The pool once every context of the cycle is given back
Back ==
    [id \in DOMAIN contexts \cup DOMAIN futures |->
        IF id \in DOMAIN futures THEN futures[id].ctx ELSE contexts[id]]

\* The step is the routing of a cycle: refresh_queues and the next ready set
Routing == pc = "await" /\ pc' = "loop"

\* How many times x occurs in the sequence s
Count(x, s) == Cardinality({i \in 1..Len(s) : s[i] = x})

\* The input ports of the components
InputPoints ==
    UNION { {Point(id, port) : port \in components[id].inputs} :
            id \in DOMAIN components }

\* The output ports connected to the input port t
SourcesOf(t) ==
    {p \in DOMAIN connections :
        \E i \in 1..Len(connections[p]) : connections[p][i] = t}

\* What the routing step appended to the queue of t
Gained(t) ==
    SubSeq(contexts'[t.id].receive[t.port].q,
           Len(Back[t.id].receive[t.port].q) + 1,
           Len(contexts'[t.id].receive[t.port].q))

\* The number of copies of x the send buffers connected to t hold
RECURSIVE SentTo(_, _)
SentTo(x, P) ==
    IF P = {} THEN 0
    ELSE LET p == CHOOSE q \in P : TRUE
         IN  Count(x, Back[p.id].send[p.port]) + SentTo(x, P \ {p})

\* The elements of a sequence
Range(s) == {s[i] : i \in 1..Len(s)}

\* The packages in the send buffers at the routing step
InFlight ==
    UNION { UNION { Range(Back[id].send[port]) : port \in DOMAIN Back[id].send } :
            id \in DOMAIN Back }

\* C11: the routing of a cycle empties every send buffer and appends to
\* every open input queue exactly one copy of each package of each send
\* buffer connected to it (n packages sent on a port with s connections
\* give n packages to each of the s targets); a closed queue gains nothing
\* and the packages of a port without connection are dropped.
C11_FanOutDeliversToEveryTarget ==
    [][ Routing =>
          /\ \A id \in DOMAIN contexts' : \A port \in DOMAIN contexts'[id].send :
                contexts'[id].send[port] = <<>>
          /\ \A t \in InputPoints :
                LET old == Back[t.id].receive[t.port]
                    new == contexts'[t.id].receive[t.port]
                IN  IF old.open
                    THEN /\ new.open
                         /\ Len(new.q) >= Len(old.q)
                         /\ SubSeq(new.q, 1, Len(old.q)) = old.q
                         /\ \A x \in InFlight \cup Range(Gained(t)) :
                               Count(x, Gained(t)) = SentTo(x, SourcesOf(t))
                    ELSE new = old ]_vars

\* One package sent once has reached the two input ports its output port is
\* connected to
C11_Witness ==
    /\ pc = "loop"
    /\ DOMAIN contexts = DOMAIN components
    /\ \E t1, t2 \in InputPoints :
          /\ t1 # t2
          /\ SourcesOf(t1) \cap SourcesOf(t2) # {}
          /\ \E x \in Range(contexts[t1.id].receive[t1.port].q) :
                /\ Count(x, contexts[t1.id].receive[t1.port].q) = 1
                /\ Count(x, contexts[t2.id].receive[t2.port].q) = 1

\* The packages of a send buffer in the order the firing emitted them: a
\* firing numbers the packages it sends
Emitted(buffer) ==
    [i \in 1..Len(buffer) |->
        CHOOSE x \in Range(buffer) :
            Cardinality({y \in Range(buffer) : y.n < x.n}) = i - 1]

\* C12: the packages one firing sent on an output port are appended to each
\* open target queue as one contiguous block, in the order in which the
\* firing emitted them.
C12_EmissionOrderKept ==
    [][ Routing =>
          \A t \in InputPoints :
              Back[t.id].receive[t.port].open =>
                  \A p \in SourcesOf(t) :
                      LET buffer == Back[p.id].send[p.port]
                      IN  \E a \in 0..(Len(Gained(t)) - Len(buffer)) :
                              SubSeq(Gained(t), a + 1, a + Len(buffer))
                                  = Emitted(buffer) ]_vars

\* s is the front part of r
IsPrefix(s, r) == Len(s) <= Len(r) /\ SubSeq(r, 1, Len(s)) = s

\* s is the back part of r
IsSuffix(s, r) == Len(s) <= Len(r) /\ SubSeq(r, Len(r) - Len(s) + 1, Len(r)) = s

\* C13: the routing of a cycle places the packages it delivers behind the
\* packages the queue already holds, and between two routings a queue only
\* loses packages at its front (or is closed by its owner): nothing is lost
\* or reordered between cycles.
C13_QueueIsConcatenationOfDeliveries ==
    [][ (DOMAIN Back = DOMAIN components /\ DOMAIN Back' = DOMAIN components) =>
          \A t \in InputPoints :
              LET old == Back[t.id].receive[t.port]
                  new == Back'[t.id].receive[t.port]
              IN  IF Routing
                  THEN IF old.open
                       THEN new.open /\ IsPrefix(old.q, new.q)
                       ELSE new = old
                  ELSE IF new.open
                       THEN old.open /\ IsSuffix(new.q, old.q)
                       ELSE new.q = <<>> ]_vars

\* At the head of cycle 4 an input queue holds three packages: at most two
\* were sent to it in one cycle, so it holds a package delivered in cycle 2
\* in front of the packages delivered in cycle 3
C13_Witness ==
    /\ pc = "loop"
    /\ cicle = 4
    /\ \E t \in InputPoints :
          /\ t.id \in DOMAIN contexts
          /\ Len(contexts[t.id].receive[t.port].q) = MaxSent + 1

\* What the owner of a closed queue gets from it
ClosedReads(ctx, port) ==
    /\ ctx.receive[port].q = <<>>
    /\ InnerCtx_receive(ctx, port).got = <<>>
    /\ InnerCtx_receive_all(ctx, port).got = <<>>
    /\ ~InnerCtx_receive(ctx, port).panic
    /\ ~InnerCtx_receive_all(ctx, port).panic
    /\ InnerCtx_receive(ctx, port).ctx.receive = ctx.receive
    /\ InnerCtx_receive_all(ctx, port).ctx.receive = ctx.receive

\* C14: a closed input queue holds no package and stays closed and empty
\* whatever is routed to it; receive on it returns None and receive_all an
\* empty list, leaving it as it is; the routing that discards the packages
\* sent to it is no error and still gives the other targets of the same
\* output port their copies.
C14_ClosedQueueDiscards ==
    [][ (DOMAIN Back = DOMAIN components /\ DOMAIN Back' = DOMAIN components) =>
          /\ \A k \in DOMAIN futures' :
                \A port \in DOMAIN futures'[k].ctx.receive :
                    ~futures'[k].ctx.receive[port].open =>
                        ClosedReads(futures'[k].ctx, port)
          /\ \A t \in InputPoints :
                ~Back[t.id].receive[t.port].open =>
                    Back'[t.id].receive[t.port] = Back[t.id].receive[t.port]
          /\ Routing =>
                /\ run_result' = [kind |-> "None"]
                /\ \A t \in InputPoints :
                      Back[t.id].receive[t.port].open =>
                          \A x \in InFlight :
                              Count(x, Gained(t)) = SentTo(x, SourcesOf(t)) ]_vars

\* At the head of cycle 4 an input port is closed while another target of
\* the same output port holds two packages, so at least one was delivered
\* to it by the routing of cycle 3, after the close
C14_Witness ==
    /\ pc = "loop"
    /\ cicle = 4
    /\ \E t1, t2 \in InputPoints :
          /\ t1.id \in DOMAIN contexts /\ t2.id \in DOMAIN contexts
          /\ SourcesOf(t1) \cap SourcesOf(t2) # {}
          /\ ~contexts[t1.id].receive[t1.port].open
          /\ contexts[t2.id].receive[t2.port].open
          /\ Len(contexts[t2.id].receive[t2.port].q) >= MaxSent

---------------------------------------------------------------------------
(* Properties of the scheduling, checked under SpecRun *)

\* C15: while run is in its loop every context is either in the pool or
\* held by one firing of the current cycle, never both; the firings of a
\* cycle are those of its ready set, one per component, and every id of a
\* ready set finds its context in the pool when the cycle starts.
C15_ContextOwnedOnce ==
    /\ DOMAIN contexts \cap DOMAIN futures = {}
    /\ pc \in {"loop", "await"} =>
          DOMAIN contexts \cup DOMAIN futures = DOMAIN components
    /\ pc = "loop" =>
          /\ futures = <<>>
          /\ ready_components \subseteq DOMAIN contexts
    /\ pc = "await" =>
          /\ DOMAIN futures = ready_components
          /\ \A k \in DOMAIN futures : futures[k].ctx.id = k

\* In the middle of a cycle one firing has returned, another is running and
\* a third context is in the pool
C15_Witness ==
    /\ pc = "await"
    /\ DOMAIN contexts # {}
    /\ \E j, k \in DOMAIN futures : futures[j].done /\ ~futures[k].done

\* C16: while a firing of the current cycle is executing nothing is routed
\* and no ready set is computed: the pool, the ready set and the cycle
\* counter stay as they are and the input queues of the firings gain
\* nothing, so a firing sees no package sent in its own cycle; a cycle
\* starts only when no firing is left from the cycle before.
C16_CycleBarrier ==
    [][ /\ (pc = "await" /\ \E k \in DOMAIN futures : ~futures[k].done) =>
              /\ pc' \in {"await", "done"}
              /\ ready_components' \in {ready_components, {}}
              /\ cicle' = cicle /\ refreshes' = refreshes /\ fired' = fired
              /\ pc' = "await" =>
                    /\ contexts' = contexts
                    /\ ready_components' = ready_components
                    /\ DOMAIN futures' = DOMAIN futures
                    /\ \A k \in DOMAIN futures :
                          \A port \in DOMAIN futures[k].ctx.receive :
                              IsSuffix(futures'[k].ctx.receive[port].q,
                                       futures[k].ctx.receive[port].q)
        /\ fired' # fired =>
              /\ pc = "loop" /\ futures = <<>>
              /\ Len(fired') = cicle
        /\ refreshes' # refreshes =>
              /\ pc = "await"
              /\ \A k \in DOMAIN futures : futures[k].done ]_vars

\* A firing that has sent a package has returned while another firing of
\* the same cycle is still executing
C16_Witness ==
    /\ pc = "await"
    /\ \E j, k \in DOMAIN futures :
          /\ futures[j].done
          /\ Sent(futures[j].ctx) > 0
          /\ ~futures[k].done

---------------------------------------------------------------------------
(* Properties of the context operations, checked under SpecRun *)

\* The list names input ports of the context, each once
DeclaredOnce(ctx, ports) ==
    /\ \A i \in 1..Len(ports) : ports[i] \in DOMAIN ctx.receive
    /\ \A i, j \in 1..Len(ports) : ports[i] = ports[j] => i = j

\* C17: receive_many on a list of input ports returns the front package of
\* each listed queue, in the order of the list, and removes just these
\* packages, exactly when every listed queue holds a package; otherwise it
\* returns None and leaves the context as it was.
C17_ReceiveManyAllOrNothing ==
    \A k \in DOMAIN futures : \A ports \in PortLists :
        DeclaredOnce(futures[k].ctx, ports) =>
            LET ctx == futures[k].ctx
                r   == InnerCtx_receive_many(ctx, ports)
            IN  /\ ~r.panic
                /\ IF \A i \in 1..Len(ports) :
                          ctx.receive[ports[i]].open /\ ctx.receive[ports[i]].q # <<>>
                   THEN /\ r.some
                        /\ r.got = [i \in 1..Len(ports) |->
                                      Head(ctx.receive[ports[i]].q)]
                        /\ \A p \in DOMAIN ctx.receive :
                              r.ctx.receive[p] =
                                  IF \E i \in 1..Len(ports) : ports[i] = p
                                  THEN [ctx.receive[p] EXCEPT !.q = Tail(@)]
                                  ELSE ctx.receive[p]
                   ELSE /\ ~r.some
                        /\ r.got = <<>>
                        /\ r.ctx.receive = ctx.receive

\* A firing with two input ports holds a package on one of them only
C17_Witness ==
    /\ pc = "await"
    /\ \E k \in DOMAIN futures :
          /\ ~futures[k].done
          /\ \E p1, p2 \in DOMAIN futures[k].ctx.receive :
                /\ futures[k].ctx.receive[p1].q # <<>>
                /\ futures[k].ctx.receive[p2].open
                /\ futures[k].ctx.receive[p2].q = <<>>

\* C18: receive_many with a port the component does not declare as input,
\* or with one port listed twice, is fatal; so are receive, receive_all and
\* close on an undeclared input port and send on an undeclared output port.
C18_PortMisuseIsFatal ==
    \A k \in DOMAIN futures :
        LET ctx == futures[k].ctx
        IN  /\ \A ports \in PortLists :
                  ~DeclaredOnce(ctx, ports) =>
                      InnerCtx_receive_many(ctx, ports).panic
            /\ \A port \in PortIds \ DOMAIN ctx.receive :
                  /\ InnerCtx_receive(ctx, port).panic
                  /\ InnerCtx_receive_all(ctx, port).panic
                  /\ InnerCtx_close(ctx, port).panic
            /\ \A port \in PortIds \ DOMAIN ctx.send :
                  /\ InnerCtx_send(ctx, port, Pkg(k, 1)).panic
                  /\ InnerCtx_send_all(ctx, port, <<Pkg(k, 1)>>).panic

---------------------------------------------------------------------------
(* Further properties of the builder, checked under Spec *)

\* The call is an add_connection between declared ports of existing
\* components
DeclaredAddConnection(call) ==
    /\ call.op = "add_connection"
    /\ call.conn.from \in DOMAIN components
    /\ call.conn.to \in DOMAIN components
    /\ call.conn.out_port \in components[call.conn.from].outputs
    /\ call.conn.in_port \in components[call.conn.to].inputs

\* C19: add_connection from a component to itself, on declared ports, fails
\* with LoopCreated and leaves the graph unchanged.
C19_SelfLoopRejected ==
    [][ (DeclaredAddConnection(last') /\ last'.conn.from = last'.conn.to) =>
          /\ last'.result = "LoopCreated"
          /\ connections' = connections
          /\ parents' = parents ]_vars

\* A self-loop on declared ports was refused on a graph that holds
\* connections
C19_Witness ==
    /\ DeclaredAddConnection(last)
    /\ last.conn.from = last.conn.to
    /\ last.result = "LoopCreated"
    /\ connections # <<>>

\* The connection is already in the edge index
Duplicate(c) ==
    /\ ConnFrom(c) \in DOMAIN connections
    /\ SeqContains(connections[ConnFrom(c)], ConnTo(c))

\* The connection would close a self-loop or a directed cycle
ClosesLoop(c) == c.from = c.to \/ PathExists(Edges(connections), c.to, c.from)

\* C20: for a connection between declared ports that is no duplicate,
\* add_connection returns LoopCreated only if the connection would close a
\* self-loop or a directed cycle, and accepts it if it closes no loop.
C20_LoopCreatedOnlyForLoops ==
    [][ (DeclaredAddConnection(last') /\ ~Duplicate(last'.conn)) =>
          /\ last'.result = "LoopCreated" => ClosesLoop(last'.conn)
          /\ ~ClosesLoop(last'.conn) => last'.result = "Ok" ]_vars


\* The edges of the parent map: <<p, i>> when p is listed as a parent of i
ParentEdges(par) ==
    UNION { {<<par[i][j], i>> : j \in 1..Len(par[i])} : i \in DOMAIN par }

\* `a` is an ancestor of `id` in the parent map
IsAncestor(par, a, id) == PathExists(ParentEdges(par), a, id)

\* The targets listed for a source endpoint in the edge index
Listed(conns, p) == IF p \in DOMAIN conns THEN conns[p] ELSE <<>>

\* The parents listed for a component in the parent map
ParentsOf(par, id) == IF id \in DOMAIN par THEN par[id] ELSE <<>>

\* C21: Connections::add returns LoopCreated exactly when from = to or from
\* is already an ancestor of to in the parent map; otherwise
\* ConnectionAlreadyExist exactly when the target endpoint is already listed
\* for the source endpoint; otherwise it succeeds, appending the target
\* endpoint to the source endpoint's list and adding from to the parents of
\* to.
C21_AddContract ==
    [][ DeclaredAddConnection(last') =>
          LET c    == last'.conn
              loop == c.from = c.to \/ IsAncestor(parents, c.from, c.to)
              dup  == Duplicate(c)
          IN  /\ (last'.result = "LoopCreated") <=> loop
              /\ (last'.result = "ConnectionAlreadyExist") <=> (~loop /\ dup)
              /\ (last'.result = "Ok") <=> (~loop /\ ~dup)
              /\ last'.result = "Ok" =>
                    /\ Listed(connections', ConnFrom(c)) =
                          Append(Listed(connections, ConnFrom(c)), ConnTo(c))
                    /\ \A p \in DOMAIN connections' \ {ConnFrom(c)} :
                          p \in DOMAIN connections /\ connections'[p] = connections[p]
                    /\ ParentsOf(parents', c.to) =
                          Append(ParentsOf(parents, c.to), c.from)
                    /\ \A id \in DOMAIN parents' \ {c.to} :
                          id \in DOMAIN parents /\ parents'[id] = parents[id] ]_vars

\* The same contract for the calls that return
C21_AddContractWhenReturning ==
    [][ (DeclaredAddConnection(last') /\ last'.result # "StackOverflow") =>
          LET c    == last'.conn
              loop == c.from = c.to \/ IsAncestor(parents, c.from, c.to)
              dup  == Duplicate(c)
          IN  /\ (last'.result = "LoopCreated") <=> loop
              /\ (last'.result = "ConnectionAlreadyExist") <=> (~loop /\ dup)
              /\ (last'.result = "Ok") <=> (~loop /\ ~dup) ]_vars


\* No source endpoint lists the same target endpoint twice
NoRepeatedEdge(conns) ==
    \A p \in DOMAIN conns :
        \A i, j \in 1..Len(conns[p]) : conns[p][i] = conns[p][j] => i = j

\* C22: add_connection with a connection equal to one already accepted
\* fails with ConnectionAlreadyExist and with no other error, and the edge
\* index never holds the same quadruple twice.
C22_DuplicateIsConnectionAlreadyExist ==
    [][ /\ (DeclaredAddConnection(last') /\ Duplicate(last'.conn)) =>
              last'.result = "ConnectionAlreadyExist"
        /\ NoRepeatedEdge(connections') ]_vars

\* The edge index alone: no quadruple is stored twice
C22_NoRepeatedEdge == NoRepeatedEdge(connections)

\* No add_connection ever returned ConnectionAlreadyExist
C22_NeverConnectionAlreadyExist == last.result # "ConnectionAlreadyExist"


\* The errors a builder call can return
BuildErrors ==
    { "ComponentAlreadyExist", "ComponentNotFound", "OutPortNotFound",
      "InPortNotFound", "LoopCreated", "ConnectionAlreadyExist" }

\* The declaration of a component as the component map stores it
Stored(comp) == [inputs |-> comp.inputs, outputs |-> comp.outputs, ty |-> comp.ty]

\* C23: a rejected builder call changes nothing. add_component with an id
\* already present returns ComponentAlreadyExist and the stored component
\* stays; an add_connection that returns an error leaves the component map,
\* the edge index and the parent map as they were.
C23_RejectedCallChangesNothing ==
    [][ /\ (last'.op = "add_component" /\ last'.comp.id \in DOMAIN components) =>
              /\ last'.result = "ComponentAlreadyExist"
              /\ components' = components
              /\ connections' = connections
              /\ parents' = parents
        /\ (last'.op = "add_connection" /\ last'.result \in BuildErrors) =>
              /\ components' = components
              /\ connections' = connections
              /\ parents' = parents ]_vars

\* An id already present was offered again with another declaration, on a
\* flow that holds connections, and the call was rejected
C23_Witness ==
    /\ last.op = "add_component"
    /\ last.result = "ComponentAlreadyExist"
    /\ components[last.comp.id] # Stored(last.comp)
    /\ connections # <<>>


\* Every stored connection goes from a declared output of an existing
\* component to a declared input of an existing component
EndpointsDeclared(comps, conns) ==
    \A p \in DOMAIN conns :
        /\ p.id \in DOMAIN comps
        /\ p.port \in comps[p.id].outputs
        /\ \A i \in 1..Len(conns[p]) :
              /\ conns[p][i].id \in DOMAIN comps
              /\ conns[p][i].port \in comps[conns[p][i].id].inputs

\* C24: add_connection succeeds only between a declared output of an
\* existing component and a declared input of an existing component, and
\* fails otherwise with ComponentNotFound, OutPortNotFound or InPortNotFound
\* according to what is missing; every stored connection has declared
\* endpoints.
C24_EndpointsValidated ==
    [][ /\ last'.op = "add_connection" =>
              LET c == last'.conn IN
              /\ last'.result = "Ok" => DeclaredAddConnection(last')
              /\ c.from \notin DOMAIN components =>
                    last'.result = "ComponentNotFound"
              /\ (c.from \in DOMAIN components
                    /\ c.out_port \notin components[c.from].outputs) =>
                    last'.result = "OutPortNotFound"
              /\ (c.from \in DOMAIN components
                    /\ c.out_port \in components[c.from].outputs
                    /\ c.to \notin DOMAIN components) =>
                    last'.result = "ComponentNotFound"
              /\ (c.from \in DOMAIN components
                    /\ c.out_port \in components[c.from].outputs
                    /\ c.to \in DOMAIN components
                    /\ c.in_port \notin components[c.to].inputs) =>
                    last'.result = "InPortNotFound"
        /\ EndpointsDeclared(components', connections') ]_vars

\* A connection to an undeclared input port was refused on a flow that
\* holds connections
C24_Witness ==
    /\ last.op = "add_connection"
    /\ last.result = "InPortNotFound"
    /\ last.conn.in_port \notin components[last.conn.to].inputs
    /\ connections # <<>>


---------------------------------------------------------------------------
(* Specification SpecHello: Flow::run on the flow of the simple_case test, *)
(* with the bodies of its components: two Message sources feed the single  *)
(* input port of a Log, which pops one package per firing and counts it in *)
(* the Global. A source sends at least one package before it returns. The  *)
(* same Log is also run behind a single source.                            *)

\*   Hello   entries 1, 2 (Message) both feed input 0 of lazy 3 (Log)
FlowHello ==
    [comps |-> { Component(1, {}, {0}, Lazy), Component(2, {}, {0}, Lazy),
                 Component(3, {0}, {}, Lazy) },
     conns |-> << Connection(1, 0, 3, 0), Connection(2, 0, 3, 0) >>]

\*   Solo    entry 1 (Message) feeds input 0 of lazy 3 (Log)
FlowSolo ==
    [comps |-> { Component(1, {}, {0}, Lazy), Component(3, {0}, {}, Lazy) },
     conns |-> << Connection(1, 0, 3, 0) >>]

HelloFlows == {FlowHello, FlowSolo}

HelloInit ==
    /\ \E fl \in HelloFlows :
          LET f == Build(fl) IN
          /\ components = f.components
          /\ connections = f.graph.connections
          /\ parents = f.graph.parents
    /\ last = NoCall
    /\ others = NoOthers
    /\ pc = "start"
    /\ contexts = <<>>
    /\ futures = <<>>
    /\ ready_components = {}
    /\ first = TRUE
    /\ cicle = 1
    /\ global = 0
    /\ run_result = [kind |-> "None"]
    /\ fired = <<>>
    /\ refreshes = 0

\* Message::run, the send
MessageSend(k) ==
    /\ Running(k)
    /\ DOMAIN futures[k].ctx.receive = {}
    /\ Send(k, 0)

\* Message::run, the return
MessageReturn(k) ==
    /\ Running(k)
    /\ DOMAIN futures[k].ctx.receive = {}
    /\ Sent(futures[k].ctx) >= 1
    /\ Return(k, "Continue")

\* Log::run: one receive on input 0, the counter of the Global incremented
\* when a package came, then Continue
LogRun(k) ==
    /\ Running(k)
    /\ DOMAIN futures[k].ctx.receive # {}
    /\ LET r == InnerCtx_receive(futures[k].ctx, 0) IN
       /\ futures' = [futures EXCEPT ![k].ctx = r.ctx, ![k].read = TRUE,
                                     ![k].done = TRUE, ![k].next = "Continue"]
       /\ global' = IF r.got # <<>> THEN global + 1 ELSE global
    /\ UNCHANGED <<pc, contexts, ready_components, first, cicle, run_result,
                   fired, refreshes>>
    /\ UNCHANGED buildVars

HelloNext ==
    \/ RunStart
    \/ CycleStart
    \/ RunEnd
    \/ \E k \in DOMAIN futures : MessageSend(k)
    \/ \E k \in DOMAIN futures : MessageReturn(k)
    \/ \E k \in DOMAIN futures : LogRun(k)
    \/ JoinContinue

\* The executor polls every scheduled body until it returns and the run
\* loop is sequential code: a step that can be taken is taken
SpecHello == HelloInit /\ [][HelloNext]_vars /\ WF_vars(HelloNext)


---------------------------------------------------------------------------
(* Properties of the simple_case run, checked under SpecHello *)

\* The Log component of the Hello and Solo flows
LogId == 3

\* The first fan-out has put n packages in the input queue of the Log
Delivered(n) ==
    /\ pc = "loop"
    /\ refreshes = 1
    /\ Len(contexts[LogId].receive[0].q) = n

\* The run returned Ok(global) with the counter at n, after the entries
\* fired once and the Log alone fired in each of the n cycles that followed
EndedCounting(n) ==
    /\ pc = "done"
    /\ run_result.kind = "Ok"
    /\ run_result.global = n
    /\ Len(fired) = n + 1
    /\ fired[1] = {id \in DOMAIN components : components[id].inputs = {}}
    /\ \A c \in 2..Len(fired) : fired[c] = {LogId}

\* C25: n packages delivered to the single input port of a Lazy component
\* that pops one package per firing make it fire in n consecutive cycles,
\* one package consumed and counted per firing, and the run then ends
\* normally with every package consumed; with one Hello and one World the
\* counter of the returned Global is 2.
C25_OnePackagePerCycle ==
    /\ [][ (pc = "await" /\ LogId \in DOMAIN futures /\ ~futures[LogId].done
              /\ futures'[LogId].done) =>
              /\ Len(futures'[LogId].ctx.receive[0].q) =
                    Len(futures[LogId].ctx.receive[0].q) - 1
              /\ global' = global + 1 ]_vars
    /\ [][ (pc = "loop" /\ pc' = "done") =>
              /\ contexts[LogId].receive[0].q = <<>>
              /\ EndedCounting(refreshes - 1)' ]_vars
    /\ \A n \in 1..(MaxCicle - 2) : Delivered(n) ~> EndedCounting(n)

\* The run of the test ended: Hello and World were sent in cycle 1, the Log
\* fired in cycles 2 and 3 and the counter is 2
C25_Witness ==
    /\ 2 \in DOMAIN components
    /\ pc = "done"
    /\ run_result.kind = "Ok"
    /\ run_result.global = 2
    /\ fired = << {1, 2}, {LogId}, {LogId} >>


---------------------------------------------------------------------------
(* Specification SpecExample: Flow::run on the flow of the documentation   *)
(* (flow_example test) with the bodies of its components: Red sends one    *)
(* package, Green drains its input, Blue drains its input and sends one    *)
(* package. The run ends by itself, so it is followed to its end.          *)

FlowExample ==
    [comps |-> { Component(1, {}, {0}, Lazy), Component(2, {}, {0}, Lazy),
                 Component(3, {0}, {0}, Lazy), Component(4, {0}, {0}, Lazy),
                 Component(5, {0}, {0}, Eager), Component(6, {0}, {0}, Lazy),
                 Component(7, {0}, {0}, Lazy), Component(8, {0}, {0}, Lazy),
                 Component(9, {0}, {}, Lazy), Component(10, {0}, {}, Lazy) },
     conns |-> << Connection(1, 0, 3, 0), Connection(1, 0, 5, 0),
                  Connection(2, 0, 4, 0), Connection(4, 0, 5, 0),
                  Connection(3, 0, 8, 0), Connection(5, 0, 6, 0),
                  Connection(5, 0, 7, 0), Connection(7, 0, 8, 0),
                  Connection(7, 0, 9, 0), Connection(8, 0, 10, 0) >>]

ExampleInit ==
    /\ components = Build(FlowExample).components
    /\ connections = Build(FlowExample).graph.connections
    /\ parents = Build(FlowExample).graph.parents
    /\ last = NoCall
    /\ others = NoOthers
    /\ pc = "start"
    /\ contexts = <<>>
    /\ futures = <<>>
    /\ ready_components = {}
    /\ first = TRUE
    /\ cicle = 1
    /\ global = 0
    /\ run_result = [kind |-> "None"]
    /\ fired = <<>>
    /\ refreshes = 0

HasInputs(k)  == DOMAIN futures[k].ctx.receive # {}
HasOutputs(k) == DOMAIN futures[k].ctx.send # {}

\* Green::run and Blue::run: receive_all on the input port
ExampleReceiveAll(k) ==
    /\ Running(k)
    /\ HasInputs(k)
    /\ ~futures[k].read
    /\ ReceiveAll(k, 0)

\* Red::run and Blue::run: one package sent on the output port
ExampleSend(k) ==
    /\ Running(k)
    /\ HasOutputs(k)
    /\ HasInputs(k) => futures[k].read
    /\ Sent(futures[k].ctx) = 0
    /\ Send(k, 0)

\* Red::run, Green::run and Blue::run: Ok(Next::Continue)
ExampleReturn(k) ==
    /\ Running(k)
    /\ HasInputs(k) => futures[k].read
    /\ HasOutputs(k) => Sent(futures[k].ctx) = 1
    /\ Return(k, "Continue")

ExampleNext ==
    \/ RunStart
    \/ CycleStart
    \/ RunEnd
    \/ \E k \in DOMAIN futures : ExampleReceiveAll(k)
    \/ \E k \in DOMAIN futures : ExampleSend(k)
    \/ \E k \in DOMAIN futures : ExampleReturn(k)
    \/ JoinContinueUpTo(cicle + 1)

\* The executor polls every scheduled body until it returns and the run
\* loop is sequential code: a step that can be taken is taken
SpecExample == ExampleInit /\ [][ExampleNext]_vars /\ WF_vars(ExampleNext)


---------------------------------------------------------------------------
(* Properties of the documented run, checked under SpecExample *)

\* Every input queue of the component holds a package
HoldsPackages(ctxs, id) ==
    \A port \in DOMAIN ctxs[id].receive : ctxs[id].receive[port].q # <<>>

\* C26: in the documented flow of 10 components the run fires {1, 2} in
\* cycle 1, {3, 4} in cycle 2 while 5 holds a package and is held back,
\* {5, 8} in cycle 3, component 8 again in cycle 5 and not in cycle 4, and
\* the run then ends normally, without error.
C26_DocumentedSchedule ==
    /\ [] /\ Len(fired) >= 1 => fired[1] = {1, 2}
          /\ Len(fired) >= 2 => fired[2] = {3, 4}
          /\ Len(fired) >= 3 => fired[3] = {5, 8}
          /\ Len(fired) >= 4 => 8 \notin fired[4]
          /\ Len(fired) >= 5 => 8 \in fired[5]
          /\ (pc = "loop" /\ cicle = 2) =>
                (HoldsPackages(contexts, 5) /\ 5 \notin ready_components)
          /\ run_result.kind \in {"None", "Ok"}
    /\ <>(pc = "done" /\ run_result.kind = "Ok" /\ Len(fired) >= 5)

\* The fifth cycle is running: 8 fires for the second time and has not yet
\* drained the package it got from 7
C26_Witness ==
    /\ pc = "await"
    /\ cicle = 5
    /\ 8 \in DOMAIN futures
    /\ 8 \in fired[3]
    /\ futures[8].ctx.receive[0].q # <<>>


---------------------------------------------------------------------------
(* Specification SpecRuns: several runs of the Hello flow at the same time *)
(* (the tasks spawned by simple_case, each calling flow.run with a Global  *)
(* of its own). The run variables hold the run that is executing; `others` *)
(* holds the locals of the runs that are waiting, and a task switch can    *)
(* happen between any two steps.                                           *)

Runs == {1, 2}

\* The locals of Flow::run
Locals ==
    [pc |-> pc, contexts |-> contexts, futures |-> futures,
     ready_components |-> ready_components, first |-> first, cicle |-> cicle,
     global |-> global, run_result |-> run_result, fired |-> fired,
     refreshes |-> refreshes]

\* A run that was spawned and has not started: its Global holds a counter
\* at 0
FreshRun ==
    [pc |-> "start", contexts |-> <<>>, futures |-> <<>>,
     ready_components |-> {}, first |-> TRUE, cicle |-> 1, global |-> 0,
     run_result |-> [kind |-> "None"], fired |-> <<>>, refreshes |-> 0]

RunsInit ==
    /\ components = Build(FlowHello).components
    /\ connections = Build(FlowHello).graph.connections
    /\ parents = Build(FlowHello).graph.parents
    /\ last = NoCall
    /\ others = [active |-> 1, parked |-> [r \in Runs \ {1} |-> FreshRun]]
    /\ pc = "start"
    /\ contexts = <<>>
    /\ futures = <<>>
    /\ ready_components = {}
    /\ first = TRUE
    /\ cicle = 1
    /\ global = 0
    /\ run_result = [kind |-> "None"]
    /\ fired = <<>>
    /\ refreshes = 0

\* Variant: the runs use one Global
GlobalOfShared(own, current) == current

\* The Global a run works on is the one that was moved into it
GlobalOf(own, current) == own

\* The executor switches to the task of run r
Resume(r) ==
    /\ r \in DOMAIN others.parked
    /\ LET s == others.parked[r] IN
       /\ pc' = s.pc
       /\ contexts' = s.contexts
       /\ futures' = s.futures
       /\ ready_components' = s.ready_components
       /\ first' = s.first
       /\ cicle' = s.cicle
       /\ global' = GlobalOf(s.global, global)
       /\ run_result' = s.run_result
       /\ fired' = s.fired
       /\ refreshes' = s.refreshes
    /\ others' = [active |-> r,
                  parked |-> [x \in (DOMAIN others.parked \ {r}) \cup {others.active} |->
                                IF x = others.active THEN Locals
                                ELSE others.parked[x]]]
    /\ UNCHANGED <<components, connections, parents, last>>

\* Message::run of the test: exactly one send
MessageSendOnce(k) ==
    /\ Running(k)
    /\ Sent(futures[k].ctx) = 0
    /\ MessageSend(k)

RunsNext ==
    \/ RunStart
    \/ CycleStart
    \/ RunEnd
    \/ \E k \in DOMAIN futures : MessageSendOnce(k)
    \/ \E k \in DOMAIN futures : MessageReturn(k)
    \/ \E k \in DOMAIN futures : LogRun(k)
    \/ JoinContinue
    \/ \E r \in Runs : Resume(r)

SpecRuns == RunsInit /\ [][RunsNext]_vars

---------------------------------------------------------------------------
(* Properties of concurrent runs, checked under SpecRuns *)

\* The locals of every run
AllRuns ==
    [r \in Runs |-> IF r = others.active THEN Locals ELSE others.parked[r]]

\* What a run of the Hello flow returns when it is executed alone
SoloResult == [kind |-> "Ok", global |-> 2, by |-> "NoneReady"]

\* C27: runs of one Flow that execute at the same time, each with its own
\* Global, share no context, queue or global: a step changes the locals of
\* one run at most, every run returns what a run executed alone returns
\* (counter 2), and running changes neither the components nor the
\* connections of the Flow.
C27_RunsAreIndependent ==
    /\ [] \A r \in Runs :
             AllRuns[r].pc = "done" =>
                /\ AllRuns[r].run_result = SoloResult
                /\ AllRuns[r].fired = << {1, 2}, {LogId}, {LogId} >>
    /\ [][ /\ Cardinality({r \in Runs : AllRuns'[r] # AllRuns[r]}) <= 1
           /\ components' = components
           /\ connections' = connections
           /\ parents' = parents ]_vars

\* Every run has returned, after the runs were interleaved: each one found
\* its own two packages and counted to 2
C27_Witness ==
    /\ \A r \in Runs : AllRuns[r].pc = "done" /\ AllRuns[r].run_result.global = 2
    /\ others.active # 1


---------------------------------------------------------------------------
(* Global: the bag of values shared by the contexts of a run, one slot per *)
(* type. A slot is the value behind its RwLock; the lock is poisoned when  *)
(* the closure of a with_mut panics while it holds the write guard.        *)

MaxValue == 2   \* the largest value a slot holds

Values  == 0..MaxValue
TypeIds == {"CounterLogs", "Total"}

Slot(value) == [value |-> value, poisoned |-> FALSE]

\* Global::default
Global_default == <<>>

\* Variant: a slot that exists is kept
Global_add_keep(bag, T, value) ==
    [t \in DOMAIN bag \cup {T} |-> IF t \in DOMAIN bag THEN bag[t] ELSE Slot(value)]

\* Global::add: entry(type_id).insert_entry(RwLock::new(..))
Global_add(bag, T, value) ==
    [t \in DOMAIN bag \cup {T} |-> IF t = T THEN Slot(value) ELSE bag[t]]

\* Global::remove: the slot leaves the map, then into_inner().unwrap()
\* panics on a poisoned lock
Global_remove(bag, T) ==
    IF T \notin DOMAIN bag THEN [bag |-> bag, kind |-> "None"]
    ELSE LET rest == [t \in DOMAIN bag \ {T} |-> bag[t]] IN
         IF bag[T].poisoned THEN [bag |-> rest, kind |-> "Panic"]
         ELSE [bag |-> rest, kind |-> "Some", value |-> bag[T].value]

\* The closures given to with, and what they return for the value they
\* read
Readers == {"get", "complement"}
Read(f, v) == IF f = "get" THEN v ELSE MaxValue - v

\* The closures given to with_mut: the value they leave, what they return,
\* and whether they panic after the write
Writers == {"incr", "reset", "incr_panic"}
Incr(v) == IF v < MaxValue THEN v + 1 ELSE v
Write(f, v) ==
    IF f = "incr" THEN [new |-> Incr(v), ret |-> Incr(v), panics |-> FALSE]
    ELSE IF f = "reset" THEN [new |-> 0, ret |-> v, panics |-> FALSE]
    ELSE [new |-> Incr(v), ret |-> v, panics |-> TRUE]

\* Global::with: get(..)? gives None, read().unwrap() panics on a poisoned
\* lock
Global_with(bag, T, f) ==
    IF T \notin DOMAIN bag THEN [kind |-> "None"]
    ELSE IF bag[T].poisoned THEN [kind |-> "Panic"]
    ELSE [kind |-> "Some", value |-> Read(f, bag[T].value)]

\* Global::with_mut: get(..)? gives None, write().unwrap() panics on a
\* poisoned lock; a closure that panics unwinds through the write guard,
\* which poisons the lock
Global_with_mut(bag, T, f) ==
    IF T \notin DOMAIN bag THEN [bag |-> bag, kind |-> "None"]
    ELSE IF bag[T].poisoned THEN [bag |-> bag, kind |-> "Panic"]
    ELSE LET r == Write(f, bag[T].value) IN
         IF r.panics
         THEN [bag |-> [bag EXCEPT ![T] = [value |-> r.new, poisoned |-> TRUE]],
               kind |-> "Panic"]
         ELSE [bag |-> [bag EXCEPT ![T].value = r.new],
               kind |-> "Some", value |-> r.ret]

---------------------------------------------------------------------------
(* Specification SpecBag: the operations of a Global, called one after the *)
(* other by code that survives a panic of a closure (catch_unwind, or the  *)
(* join of the task that panicked). `global` holds the bag.                *)

BagInit ==
    /\ components = <<>>
    /\ connections = <<>>
    /\ parents = <<>>
    /\ last = NoCall
    /\ others = NoOthers
    /\ pc = "global"
    /\ contexts = <<>>
    /\ futures = <<>>
    /\ ready_components = {}
    /\ first = TRUE
    /\ cicle = 1
    /\ global = Global_default
    /\ run_result = [kind |-> "None"]
    /\ fired = <<>>
    /\ refreshes = 0

BagFrame ==
    UNCHANGED <<components, connections, parents, others, pc, contexts,
                futures, ready_components, first, cicle, run_result, fired,
                refreshes>>

BagAdd(T, value) ==
    /\ pc = "global"
    /\ global' = Global_add(global, T, value)
    /\ last' = [op |-> "add", ty |-> T, value |-> value,
                result |-> [kind |-> "Self"]]
    /\ BagFrame

BagRemove(T) ==
    /\ pc = "global"
    /\ LET r == Global_remove(global, T) IN
       /\ global' = r.bag
       /\ last' = [op |-> "remove", ty |-> T,
                   result |-> [k \in DOMAIN r \ {"bag"} |-> r[k]]]
    /\ BagFrame

BagWith(T, f) ==
    /\ pc = "global"
    /\ global' = global
    /\ last' = [op |-> "with", ty |-> T, f |-> f,
                result |-> Global_with(global, T, f)]
    /\ BagFrame

BagWithMut(T, f) ==
    /\ pc = "global"
    /\ LET r == Global_with_mut(global, T, f) IN
       /\ global' = r.bag
       /\ last' = [op |-> "with_mut", ty |-> T, f |-> f,
                   result |-> [k \in DOMAIN r \ {"bag"} |-> r[k]]]
    /\ BagFrame

BagNext ==
    \/ \E T \in TypeIds, value \in Values : BagAdd(T, value)
    \/ \E T \in TypeIds : BagRemove(T)
    \/ \E T \in TypeIds, f \in Readers : BagWith(T, f)
    \/ \E T \in TypeIds, f \in Writers : BagWithMut(T, f)

SpecBag == BagInit /\ [][BagNext]_vars


---------------------------------------------------------------------------
(* Properties of the Global, checked under SpecBag *)

\* The call answered for a type without slot, or for a slot whose lock is
\* sound: None, or Some of what the closure returns, a with_mut leaving the
\* closure's value in the slot for every later access
AnswersFromSlot(call) ==
    LET T == call.ty IN
    /\ T \notin DOMAIN global =>
          (call.result.kind = "None" /\ global' = global)
    /\ (T \in DOMAIN global /\ ~global[T].poisoned /\ call.op = "with") =>
          /\ call.result = [kind |-> "Some", value |-> Read(call.f, global[T].value)]
          /\ global' = global
    /\ (T \in DOMAIN global /\ ~global[T].poisoned /\ call.op = "with_mut"
          /\ ~Write(call.f, global[T].value).panics) =>
          /\ call.result = [kind |-> "Some",
                            value |-> Write(call.f, global[T].value).ret]
          /\ global' = [global EXCEPT ![T].value = Write(call.f, @).new]
          /\ \A g \in Readers :
                Global_with(global', T, g) =
                   [kind |-> "Some",
                    value |-> Read(g, Write(call.f, global[T].value).new)]

\* C28: with and with_mut return None for a type without slot and Some of
\* what the closure returns for a type with a slot, the change of a
\* with_mut being seen by every later access; a poisoned lock is reported
\* as the CannotAccessGlobal error, not by a panic.
C28_WithContract ==
    [][ last'.op \in {"with", "with_mut"} =>
          /\ AnswersFromSlot(last')
          /\ (last'.ty \in DOMAIN global /\ global[last'.ty].poisoned) =>
                last'.result.kind = "CannotAccessGlobal" ]_vars

\* The part of the contract that does not involve a poisoned lock
C28_WithContractSoundLock ==
    [][ last'.op \in {"with", "with_mut"} => AnswersFromSlot(last') ]_vars


\* The bag without the slot of T
Without(bag, T) == [t \in DOMAIN bag \ {T} |-> bag[t]]

\* add installs the slot of the value's type in place of any former one and
\* leaves the slots of the other types alone
AddInstalls(call) ==
    call.op = "add" =>
       /\ DOMAIN global' = DOMAIN global \cup {call.ty}
       /\ global'[call.ty] = [value |-> call.value, poisoned |-> FALSE]
       /\ \A t \in DOMAIN global \ {call.ty} : global'[t] = global[t]

\* remove of a type without slot returns None and leaves the bag alone
RemoveOfNothing(call) ==
    (call.op = "remove" /\ call.ty \notin DOMAIN global) =>
       (call.result.kind = "None" /\ global' = global)

\* remove returns the value of the slot, which is the value added last or
\* the value a later with_mut left, and leaves no slot
RemoveReturns(call) ==
    /\ call.result = [kind |-> "Some", value |-> global[call.ty].value]
    /\ (last.op = "add" /\ last.ty = call.ty) =>
          call.result.value = last.value
    /\ (last.op = "with_mut" /\ last.ty = call.ty /\ last.f = "incr") =>
          call.result.value = last.result.value
    /\ global' = Without(global, call.ty)

\* C29 as stated: add installs or replaces the slot of the value's type
\* and leaves the other slots; remove returns the last value added for the
\* type, with the changes made through with_mut, and leaves no slot for the
\* type; without slot it returns None and leaves the bag unchanged.
C29_AddRemoveContract ==
    [][ /\ AddInstalls(last')
        /\ RemoveOfNothing(last')
        /\ (last'.op = "remove" /\ last'.ty \in DOMAIN global) =>
              RemoveReturns(last') ]_vars

\* C29, amended: the same, remove returning the value when the lock of the
\* slot is not poisoned; on a poisoned lock remove panics and the slot is
\* gone.
C29_AddRemoveContractSoundLock ==
    [][ /\ AddInstalls(last')
        /\ RemoveOfNothing(last')
        /\ (last'.op = "remove" /\ last'.ty \in DOMAIN global
              /\ ~global[last'.ty].poisoned) =>
              RemoveReturns(last')
        /\ (last'.op = "remove" /\ last'.ty \in DOMAIN global
              /\ global[last'.ty].poisoned) =>
              /\ last'.result.kind = "Panic"
              /\ global' = Without(global, last'.ty) ]_vars

\* A slot holding a value other than the initial one was removed and
\* returned, and the slot of the other type is still in the bag
C29_Witness ==
    /\ last.op = "remove"
    /\ last.result.kind = "Some"
    /\ last.result.value = MaxValue
    /\ last.ty \notin DOMAIN global
    /\ global # <<>>


---------------------------------------------------------------------------
(* Further properties of the run, checked under SpecRun *)

\* C30: every firing of the n-th cycle of a run sees cicle() = n, the first
\* cycle being 1 and the number growing by exactly 1 with each cycle run,
\* and starts with its consumed flag false whatever the previous firing of
\* the component left.
C30_CycleStampAndConsumedReset ==
    /\ [] (pc = "await" =>
             \A k \in DOMAIN futures : futures[k].ctx.cicle = Len(fired))
    /\ [][ (pc = "loop" /\ pc' = "await") =>
             /\ Len(fired') = Len(fired) + 1
             /\ cicle = Len(fired')
             /\ \A k \in DOMAIN futures' :
                   /\ futures'[k].ctx.cicle = Len(fired')
                   /\ ~futures'[k].ctx.consumed ]_vars
    /\ [][ (pc = "await" /\ pc' = "loop") => cicle' = cicle + 1 ]_vars

\* A component that consumed in the cycle before has just been launched
\* again, in cycle 3 or later, and has not read yet
C30_Witness ==
    /\ pc = "await"
    /\ Len(fired) >= 3
    /\ \E k \in DOMAIN futures :
          /\ k \in fired[Len(fired) - 1]
          /\ ~futures[k].ctx.consumed
          /\ ~futures[k].done


---------------------------------------------------------------------------
(* Ports: the list of ports a component declares. A Port is its id and an *)
(* optional label.                                                         *)

MaxPorts == 3   \* the longest list given to Ports::new

NoLabel == "None"
Labels  == {NoLabel, "data", "message"}

Port(port, label) == [port |-> port, label |-> label]

PortPool == {Port(port, label) : port \in PortIds, label \in Labels}

PortLists_upto(n) == UNION { [1..len -> PortPool] : len \in 0..n }

\* Ports::new: the double loop compares the port ids of every pair and
\* panics on the first pair that agrees
Ports_new(ports) ==
    IF \E i, j \in 1..Len(ports) : i < j /\ ports[i].port = ports[j].port
    THEN [panic |-> TRUE, ports |-> <<>>]
    ELSE [panic |-> FALSE, ports |-> ports]

\* Ports::contains
Ports_contains(ports, port) == \E i \in 1..Len(ports) : ports[i].port = port

\* Ports::contains_label
Ports_contains_label(ports, label) ==
    \E i \in 1..Len(ports) : ports[i].label # NoLabel /\ ports[i].label = label

---------------------------------------------------------------------------
(* Specification SpecPorts: Ports::new on a list of ports *)

PortsInit ==
    /\ components = <<>>
    /\ connections = <<>>
    /\ parents = <<>>
    /\ \E ports \in PortLists_upto(MaxPorts) :
          last = [op |-> "none", ports |-> ports]
    /\ others = NoOthers
    /\ pc = "ports"
    /\ contexts = <<>>
    /\ futures = <<>>
    /\ ready_components = {}
    /\ first = TRUE
    /\ cicle = 1
    /\ global = 0
    /\ run_result = [kind |-> "None"]
    /\ fired = <<>>
    /\ refreshes = 0

PortsNew ==
    /\ pc = "ports"
    /\ last.op = "none"
    /\ last' = [op |-> "Ports::new", ports |-> last.ports,
                result |-> Ports_new(last.ports)]
    /\ UNCHANGED <<components, connections, parents, others>>
    /\ UNCHANGED runVars

PortsNext == PortsNew

SpecPorts == PortsInit /\ [][PortsNext]_vars

---------------------------------------------------------------------------
(* Properties of Ports, checked under SpecPorts *)

SameId(ports) ==
    \E i, j \in 1..Len(ports) : i # j /\ ports[i].port = ports[j].port

SameLabel(ports) ==
    \E i, j \in 1..Len(ports) :
        i # j /\ ports[i].label # NoLabel /\ ports[i].label = ports[j].label

\* Ports::new returned the ports it was given, and contains answers for
\* exactly their ids
HoldsTheGiven(call) ==
    /\ ~call.result.panic
    /\ call.result.ports = call.ports
    /\ \A port \in PortIds :
          Ports_contains(call.result.ports, port) <=>
             port \in {call.ports[i].port : i \in 1..Len(call.ports)}

\* C31: Ports::new panics when two ports of the list have the same id or
\* the same label, and otherwise returns a Ports that holds exactly the
\* given ports, contains being true exactly for their ids.
C31_PortsNewRejectsDuplicates ==
    last.op = "Ports::new" =>
       IF SameId(last.ports) \/ SameLabel(last.ports)
       THEN last.result.panic
       ELSE HoldsTheGiven(last)

\* The part of the contract about port ids
C31_PortsNewRejectsDuplicateIds ==
    last.op = "Ports::new" =>
       /\ SameId(last.ports) => last.result.panic
       /\ ~SameId(last.ports) => HoldsTheGiven(last)


---------------------------------------------------------------------------
(* Further properties of the builder, checked under Spec *)

\* C32: an add_connection rejected because the destination component does
\* not declare the in_port returns InPortNotFound naming the destination
\* component, connection.to.
C32_InPortNotFoundNamesDestination ==
    (last.op = "add_connection" /\ last.result = "InPortNotFound") =>
        last.id = last.conn.to


\* C33: the parent map agrees with the edge index. `from` is listed among
\* the parents of `to` exactly when an accepted connection goes from a port
\* of `from` to a port of `to`, and it is listed once.
C33_ParentsAgreeWithEdges ==
    /\ \A to \in DOMAIN parents :
          \A i, j \in 1..Len(parents[to]) :
              parents[to][i] = parents[to][j] => i = j
    /\ \A from \in Ids, to \in Ids :
          (to \in DOMAIN parents /\ SeqContains(parents[to], from))
             <=> (\E p \in DOMAIN connections :
                     /\ p.id = from
                     /\ \E i \in 1..Len(connections[p]) : connections[p][i].id = to)

\* A component has two parents
C33_Witness ==
    \E to \in DOMAIN parents :
        /\ Len(parents[to]) = 2
        /\ last.op = "add_connection"
        /\ last.result = "Ok"
        /\ last.conn.to = to


---------------------------------------------------------------------------
(* Further properties of the run, checked under SpecRun *)

\* A firing of the cycle returned an error
SomeErr == \E k \in DOMAIN futures : futures[k].next = "Err"

\* A firing of the cycle returned Break
SomeBreak == \E k \in DOMAIN futures : futures[k].next = "Break"

\* A firing of a cycle after the first returned without having consumed
SomeUnconsumed ==
    ~first /\ \E k \in DOMAIN futures : futures[k].done /\ ~futures[k].ctx.consumed

\* C34: the outcome of a cycle is decided in the order error, Break,
\* NoPackageConsumed. With a firing that returned an error the run returns
\* that error, also when another firing returned Break; with every firing
\* returned, none with an error and one with Break, the run returns
\* Ok(global), also when another firing consumed nothing; the packages sent
\* in the cycle of the Break are not routed.
C34_ErrorThenBreakThenUnconsumed ==
    /\ [][ (pc = "await" /\ SomeErr) =>
              /\ pc' = "done"
              /\ run_result'.kind = "ComponentError"
              /\ futures[run_result'.id].next = "Err"
              /\ refreshes' = refreshes ]_vars
    /\ [][ (pc = "await" /\ ~SomeErr /\ SomeBreak
              /\ \A k \in DOMAIN futures : futures[k].done) =>
              /\ pc' = "done"
              /\ run_result' = [kind |-> "Ok", global |-> global, by |-> "Break"]
              /\ refreshes' = refreshes
              /\ contexts' = <<>> ]_vars

\* One firing of the cycle returned an error after another returned Break
C34_Witness ==
    /\ pc = "await"
    /\ SomeErr
    /\ SomeBreak

\* Every firing returned, one with Break and another, in a cycle after the
\* first, without having consumed
C34_WitnessBreak ==
    /\ pc = "await"
    /\ ~SomeErr
    /\ SomeBreak
    /\ SomeUnconsumed
    /\ \A k \in DOMAIN futures : futures[k].done


---------------------------------------------------------------------------
(* Further properties of the routing, checked under SpecRoute *)

\* The number of packages the firings of the cycle hold in the send buffers
\* of the output ports P
RECURSIVE SentThisCycle(_)
SentThisCycle(P) ==
    IF P = {} THEN 0
    ELSE LET p == CHOOSE q \in P : TRUE
         IN  (IF p.id \in DOMAIN futures
              THEN Len(futures[p.id].ctx.send[p.port]) ELSE 0)
             + SentThisCycle(P \ {p})

\* C35: after every fan-out step every send buffer of every context is
\* empty, so a context in the pool never holds a package to route; a fan-out
\* step gives each open input queue as many packages as the firings of this
\* cycle sent on the output ports connected to it, whatever the other send
\* buffers of the sender hold, and nothing for a port without connection.
C35_SendBuffersEmptiedByEveryFanOut ==
    /\ [](\A id \in DOMAIN contexts : \A port \in DOMAIN contexts[id].send :
              contexts[id].send[port] = <<>>)
    /\ [][ (pc = "await" /\ refreshes' = refreshes + 1) =>
              /\ DOMAIN contexts' = DOMAIN components
              /\ \A t \in InputPoints :
                    LET old == Back[t.id].receive[t.port]
                        new == contexts'[t.id].receive[t.port]
                    IN  old.open =>
                            Len(new.q) = Len(old.q) + SentThisCycle(SourcesOf(t)) ]_vars

\* The fan-out step is about to run on a firing that sent on its output
\* port without connection and on no other port
C35_Witness ==
    /\ pc = "await"
    /\ \A k \in DOMAIN futures : futures[k].done
    /\ \E k \in DOMAIN futures :
          /\ futures[k].ctx.consumed
          /\ \E port \in DOMAIN futures[k].ctx.send :
                /\ Point(k, port) \notin DOMAIN connections
                /\ futures[k].ctx.send[port] # <<>>
                /\ \E other \in DOMAIN futures[k].ctx.send :
                      other < port /\ futures[k].ctx.send[other] = <<>>


---------------------------------------------------------------------------
(* Closed input ports and readiness, checked under SpecRun *)

\* An input port of the component is closed
HasClosed(id) ==
    /\ id \in DOMAIN Back
    /\ \E port \in DOMAIN Back[id].receive : ~Back[id].receive[port].open

\* C36: a closed input port stays closed for the rest of the run, the ready
\* set computed by a routing step holds no component with a closed input
\* port, and no such component is started by a cycle: once a firing closed
\* one input port of its component, the component is never ready again,
\* whatever its other input queues hold.
C36_ClosedPortNeverReadyAgain ==
    /\ [][ \A id \in DOMAIN components :
              (HasClosed(id) /\ id \in DOMAIN Back') => HasClosed(id)' ]_vars
    /\ [][ Routing =>
              \A id \in DOMAIN components :
                  HasClosed(id) => id \notin ready_components' ]_vars
    /\ [][ \A id \in DOMAIN futures' \ DOMAIN futures : ~HasClosed(id) ]_vars

\* At the head of a cycle a component with a closed input port holds a
\* package in another input queue and is not in the ready set
C36_Witness ==
    /\ pc = "loop"
    /\ \E id \in DOMAIN contexts :
          /\ HasClosed(id)
          /\ \E port \in DOMAIN contexts[id].receive :
                /\ contexts[id].receive[port].open
                /\ contexts[id].receive[port].q # <<>>
          /\ id \notin ready_components


---------------------------------------------------------------------------
(* Specification SpecRing: Flow::run followed without a bound on the number
   of cycles. The cycle counter is counted up to MaxCicle and held there
   (the schedule does not read it), and the record of the ready sets is not
   kept, so that a run without end is a finite loop of states. *)

\* Ring: entry 1 -> 2 -> 3 -> 2, every component Lazy (the builder accepts
\* 3 -> 2); the other flows have no ring
FlowRingLazy ==
    [comps |-> { Component(1, {}, {0}, Lazy), Component(2, {0}, {0}, Lazy),
                 Component(3, {0}, {0}, Lazy) },
     conns |-> << Connection(1, 0, 2, 0), Connection(2, 0, 3, 0),
                  Connection(3, 0, 2, 0) >>]

RingFlows == {FlowRingLazy, FlowHoldBack, FlowFork, FlowFan}

RingInit ==
    /\ \E fl \in RingFlows :
          /\ components = Build(fl).components
          /\ connections = Build(fl).graph.connections
          /\ parents = Build(fl).graph.parents
    /\ last = NoCall
    /\ others = NoOthers
    /\ pc = "start"
    /\ contexts = <<>>
    /\ futures = <<>>
    /\ ready_components = {}
    /\ first = TRUE
    /\ cicle = 1
    /\ global = 0
    /\ run_result = [kind |-> "None"]
    /\ fired = <<>>
    /\ refreshes = 0

\* The head of the loop with a ready set
RingCycleStart ==
    /\ pc = "loop"
    /\ ready_components # {}
    /\ pc' = "await"
    /\ futures' = [id \in ready_components |-> Launch(contexts[id], cicle)]
    /\ contexts' = BorrowAll(contexts, ready_components)
    /\ UNCHANGED <<ready_components, first, cicle, global, run_result, fired,
                   refreshes>>
    /\ UNCHANGED buildVars

\* The body returns Ok(Next::Break) once it has read its inputs
RingReturnBreak(k) ==
    /\ Running(k)
    /\ HasInputs(k) => futures[k].read
    /\ Return(k, "Break")

\* The end of a cycle that continues: give_back, refresh_queues, the next
\* ready set
RingJoinContinue ==
    /\ pc = "await"
    /\ AllReturned
    /\ ~AnyBreak
    /\ NotConsumed(futures, first) = {}
    /\ LET back == [id \in DOMAIN contexts \cup DOMAIN futures |->
                      IF id \in DOMAIN futures THEN futures[id].ctx
                      ELSE contexts[id]]
       IN  \E ord \in SourceOrders(back) :
             LET routed == refresh_queues(back, connections, ord)
             IN  /\ pc' = "loop"
                 /\ contexts' = routed
                 /\ futures' = <<>>
                 /\ ready_components' = ready_components_of(routed, parents)
                 /\ first' = FALSE
                 /\ cicle' = IF cicle < MaxCicle THEN cicle + 1 ELSE cicle
                 /\ UNCHANGED run_result
    /\ UNCHANGED <<global, fired, refreshes>>
    /\ UNCHANGED buildVars

RingNext ==
    \/ RunStart
    \/ RingCycleStart
    \/ RunEnd
    \/ \E k \in DOMAIN futures : ExampleReceiveAll(k)
    \/ \E k \in DOMAIN futures : ExampleSend(k)
    \/ \E k \in DOMAIN futures : ExampleReturn(k)
    \/ \E k \in DOMAIN futures : RingReturnBreak(k)
    \/ JoinBreak
    \/ RingJoinContinue

\* The executor polls every scheduled body until it returns and the run
\* loop is sequential code: a step that can be taken is taken
SpecRing == RingInit /\ [][RingNext]_vars /\ WF_vars(RingNext)

\* The flow holds a connection that closes a ring
RingBuilt == ~Acyclic(Edges(connections))

\* C37: a run of a flow built through the builder, whose firings each send
\* a bounded number of packages and return, ends: the ready set becomes
\* empty, a firing returns Break, or an error is returned.
C37_RunTerminates == <>(pc = "done")

\* C37 for the flows in which the builder was given no ring
C37_RunTerminatesWithoutRing == RingBuilt \/ <>(pc = "done")


---------------------------------------------------------------------------
(* The recursion of the ancestry queries, checked under Spec *)

\* C38: on every graph reached through accepted add calls the recursion of
\* ancestral_of and of any_ancestral_of comes to an end, whatever the
\* component and the candidate ancestors asked about.
C38_AncestryQueriesTerminate ==
    /\ \A ancestral \in Ids, id \in Ids :
          ancestral_of(parents, ancestral, id) # "D"
    /\ \A ancestrals \in SUBSET Ids, id \in Ids :
          any_ancestral_of(parents, ancestrals, id) # "D"

\* C38 for the graphs in which no accepted connection closed a ring
C38_AncestryQueriesTerminateWithoutRing ==
    Acyclic(Edges(connections)) => C38_AncestryQueriesTerminate


---------------------------------------------------------------------------
(* Specification SpecMerge: runs whose bodies are fixed (receive_all on the
   input port, one package sent on the output port, Continue) and do not
   use the Global; what is left open is the interleaving of the firings of
   a cycle and the order in which refresh_queues meets the send buffers. *)

\* Merge: entries 1 and 2 both feed 3.0 in the first cycle; 4.0 is fed by 1
\* in the first cycle and by 3 in the second
FlowMerge ==
    [comps |-> { Component(1, {}, {0}, Lazy), Component(2, {}, {0}, Lazy),
                 Component(3, {0}, {0}, Lazy), Component(4, {0}, {}, Lazy) },
     conns |-> << Connection(1, 0, 3, 0), Connection(2, 0, 3, 0),
                  Connection(1, 0, 4, 0), Connection(3, 0, 4, 0) >>]

MergeFlows == {FlowMerge, FlowFork, FlowHoldBack, FlowFan, FlowTwoIn, FlowExample}

MergeInit ==
    /\ \E fl \in MergeFlows :
          /\ components = Build(fl).components
          /\ connections = Build(fl).graph.connections
          /\ parents = Build(fl).graph.parents
    /\ last = NoCall
    /\ others = NoOthers
    /\ pc = "start"
    /\ contexts = <<>>
    /\ futures = <<>>
    /\ ready_components = {}
    /\ first = TRUE
    /\ cicle = 1
    /\ global = 0
    /\ run_result = [kind |-> "None"]
    /\ fired = <<>>
    /\ refreshes = 0

MergeNext ==
    \/ RunStart
    \/ CycleStart
    \/ RunEnd
    \/ \E k \in DOMAIN futures : ExampleReceiveAll(k)
    \/ \E k \in DOMAIN futures : ExampleSend(k)
    \/ \E k \in DOMAIN futures : ExampleReturn(k)
    \/ JoinContinueUpTo(cicle + 1)

SpecMerge == MergeInit /\ [][MergeNext]_vars

\* The context a firing of the fixed body returns
RefBody(ctx) ==
    LET read == IF DOMAIN ctx.receive # {}
                THEN InnerCtx_receive_all(ctx, 0).ctx ELSE ctx
    IN  IF DOMAIN read.send # {}
        THEN InnerCtx_send(read, 0, Pkg(ctx.id, 1)).ctx ELSE read

\* The pool after cycle c, its firings run one after the other and the send
\* buffers met in one chosen order
RefRound(ctxs, ready, c) ==
    LET back == [id \in DOMAIN ctxs |->
                    IF id \in ready THEN RefBody(Launch(ctxs[id], c).ctx)
                    ELSE ctxs[id]]
    IN  refresh_queues(back, connections,
                       CHOOSE ord \in SourceOrders(back) : TRUE)

\* The pool and the ready set at the head of cycle c of that run
RECURSIVE RefHead(_)
RefHead(c) ==
    IF c = 1
    THEN [ctxs |-> Ctxs_new(components),
          ready |-> entry_points(Ctxs_new(components))]
    ELSE LET h == RefHead(c - 1)
             ctxs == RefRound(h.ctxs, h.ready, c - 1)
         IN  [ctxs |-> ctxs, ready |-> ready_components_of(ctxs, parents)]

\* In no cycle so far did two sources of the input port t fire
FedByOneSourcePerCycle(t) ==
    \A c \in 1..Len(fired) :
        Cardinality({p \in SourcesOf(t) : p.id \in fired[c]}) <= 1

\* The two sequences hold the same packages the same number of times
SameBag(s, r) ==
    /\ Len(s) = Len(r)
    /\ \A i \in 1..Len(s) : Count(s[i], s) = Count(s[i], r)

\* C39: with bodies that do not use the Global, a firing's step changes the
\* context of that firing only, and whatever the interleaving of the firings
\* and the order of the routing, the ready sets of the run are those of the
\* run taken one firing after the other, every input queue holds the same
\* packages as in that run, and in the same order when at most one of its
\* sources fired in each cycle.
C39_ScheduleIndependentOfInterleaving ==
    /\ [](\A c \in 1..Len(fired) : fired[c] = RefHead(c).ready)
    /\ []((pc = "loop" /\ DOMAIN contexts = DOMAIN components) =>
            /\ ready_components = RefHead(cicle).ready
            /\ \A t \in InputPoints :
                  LET q == contexts[t.id].receive[t.port].q
                      r == RefHead(cicle).ctxs[t.id].receive[t.port].q
                  IN  /\ SameBag(q, r)
                      /\ FedByOneSourcePerCycle(t) => q = r)
    /\ [][ (pc = "await" /\ pc' = "await") =>
              /\ contexts' = contexts
              /\ \E k \in DOMAIN futures :
                    \A j \in DOMAIN futures \ {k} : futures'[j] = futures[j] ]_vars

\* At the head of the second cycle an input queue holds the packages of its
\* two sources in the other order than in the run taken one firing after
\* the other
C39_Witness ==
    /\ pc = "loop"
    /\ cicle = 2
    /\ \E t \in InputPoints :
          /\ t.id \in DOMAIN contexts
          /\ Len(contexts[t.id].receive[t.port].q) = 2
          /\ contexts[t.id].receive[t.port].q
                # RefHead(2).ctxs[t.id].receive[t.port].q


---------------------------------------------------------------------------
(* Specification SpecShared: a run whose bodies each call
   ctx.global().with_mut once on the slot "Total" to add one to it. The
   firings of a cycle are followed as if each ran on a thread of its own:
   taking the write lock, reading the value, writing it back and dropping
   the guard are steps of their own. `global` holds the values of the
   slots, the write guards that are alive on "Total" (by firing) and the
   with_mut calls that returned (by cycle and firing). *)

TheSlot == "Total"

\* The bags given to run
SharedBags ==
    { (TheSlot :> 0), (TheSlot :> 0) @@ ("CounterLogs" :> 0), ("CounterLogs" :> 0) }

SharedFlows == {FlowTwoIn, FlowFork, FlowMerge}

\* Variant: the write lock is handed out while another guard is alive
RwLock_write_shared(guards) == TRUE

\* RwLock::write: granted when no guard is alive on the slot
RwLock_write(guards) == DOMAIN guards = {}

SharedInit ==
    /\ \E fl \in SharedFlows :
          /\ components = Build(fl).components
          /\ connections = Build(fl).graph.connections
          /\ parents = Build(fl).graph.parents
    /\ last = NoCall
    /\ others = NoOthers
    /\ pc = "start"
    /\ contexts = <<>>
    /\ futures = <<>>
    /\ ready_components = {}
    /\ first = TRUE
    /\ cicle = 1
    /\ \E bag \in SharedBags :
          global = [vars |-> bag, guards |-> <<>>, served |-> {}]
    /\ run_result = [kind |-> "None"]
    /\ fired = <<>>
    /\ refreshes = 0

SharedFrame ==
    /\ UNCHANGED <<pc, contexts, futures, ready_components, first, cicle,
                   run_result, fired, refreshes>>
    /\ UNCHANGED buildVars

\* The body of k is at its with_mut call
AtWithMut(k) ==
    /\ Running(k)
    /\ HasInputs(k) => futures[k].read
    /\ <<cicle, k>> \notin global.served

\* with_mut: the slot is looked up and its write lock taken; without the
\* slot the call returns None
SharedLock(k) ==
    /\ AtWithMut(k)
    /\ k \notin DOMAIN global.guards
    /\ IF TheSlot \notin DOMAIN global.vars
       THEN global' = [global EXCEPT !.served = @ \cup {<<cicle, k>>}]
       ELSE /\ RwLock_write(global.guards)
            /\ global' = [global EXCEPT !.guards =
                             (k :> [seen |-> FALSE, wrote |-> FALSE, v |-> 0]) @@ @]
    /\ SharedFrame

\* The closure reads the value through the guard
SharedRead(k) ==
    /\ AtWithMut(k)
    /\ k \in DOMAIN global.guards
    /\ ~global.guards[k].seen
    /\ global' = [global EXCEPT !.guards[k] =
                     [seen |-> TRUE, wrote |-> FALSE, v |-> global.vars[TheSlot]]]
    /\ SharedFrame

\* The closure writes the value plus one through the guard
SharedWrite(k) ==
    /\ AtWithMut(k)
    /\ k \in DOMAIN global.guards
    /\ global.guards[k].seen
    /\ ~global.guards[k].wrote
    /\ global' = [global EXCEPT !.vars[TheSlot] = global.guards[k].v + 1,
                                !.guards[k].wrote = TRUE]
    /\ SharedFrame

\* with_mut returns: the guard is dropped
SharedUnlock(k) ==
    /\ AtWithMut(k)
    /\ k \in DOMAIN global.guards
    /\ global.guards[k].wrote
    /\ global' = [global EXCEPT
                     !.guards = [j \in DOMAIN global.guards \ {k} |-> global.guards[j]],
                     !.served = @ \cup {<<cicle, k>>}]
    /\ SharedFrame

\* The body returns Ok(Next::Continue) after its with_mut call
SharedReturn(k) ==
    /\ Running(k)
    /\ <<cicle, k>> \in global.served
    /\ Return(k, "Continue")

SharedNext ==
    \/ RunStart
    \/ CycleStart
    \/ RunEnd
    \/ \E k \in DOMAIN futures : ExampleReceiveAll(k)
    \/ \E k \in DOMAIN futures : ExampleSend(k)
    \/ \E k \in DOMAIN futures : SharedLock(k)
    \/ \E k \in DOMAIN futures : SharedRead(k)
    \/ \E k \in DOMAIN futures : SharedWrite(k)
    \/ \E k \in DOMAIN futures : SharedUnlock(k)
    \/ \E k \in DOMAIN futures : SharedReturn(k)
    \/ JoinContinueUpTo(cicle + 1)

SpecShared == SharedInit /\ [][SharedNext]_vars

\* The bodies that have written through a guard that is still alive
Writing == {k \in DOMAIN global.guards : global.guards[k].wrote}

\* C40: at most one write guard is alive on a slot, so the with_mut bodies
\* on it exclude each other; the slot holds one unit for every with_mut body
\* that has written, under every interleaving, so that after a cycle in
\* which two firings each added one it has gained two; and no step of the
\* run changes the set of slots of the bag.
C40_WithMutLosesNoUpdate ==
    /\ [](Cardinality(DOMAIN global.guards) <= 1)
    /\ [](TheSlot \in DOMAIN global.vars =>
            global.vars[TheSlot]
                = Cardinality(global.served) + Cardinality(Writing))
    /\ [][DOMAIN global.vars' = DOMAIN global.vars]_vars
    /\ [](pc = "done" =>
            /\ run_result.kind = "Ok"
            /\ DOMAIN run_result.global.vars = DOMAIN global.vars)

\* Two firings of the first cycle each added one to the slot
C40_Witness ==
    /\ pc = "loop"
    /\ cicle = 2
    /\ TheSlot \in DOMAIN global.vars
    /\ global.vars[TheSlot] = 2
    /\ global.served = {<<1, 1>>, <<1, 2>>}

=============================================================================
